---- MODULE Spec2Model ----
(***************************************************************************)
(* FilteredMCPTools (src/agents/utils/filtered_mcp_tools.py): the          *)
(* annotation filter, the include/exclude name filter and the registration *)
(* pass of initialize(), as a state machine over one instance.             *)
(***************************************************************************)
EXTENDS Integers, Sequences, FiniteSets, TLC

(***************************************************************************)
(* Bounds of the model.                                                    *)
(***************************************************************************)
\* Longest catalogue session.list_tools() returns.
MaxTools == 3
\* Most items an async generator returned by a remote call yields.
MaxItems == 2
\* Most key/rule pairs in an annotation_filters mapping handed to the probes.
MaxRules == 2

(***************************************************************************)
(* Python values.  Every value has the same shape so that values of        *)
(* different Python types can be compared and collected in sets:           *)
(*   t  the Python type ("none", "bool", "int", "float", "str", "list",    *)
(*      "dict", "callable")                                                *)
(*   s  the text of a str, the name of a callable                          *)
(*   n  the number of an int, 0/1 for a bool                               *)
(*   l  the elements of a list, each an element record [t, s, n]; an       *)
(*      element of type "list" or "dict" is a nested container (its        *)
(*      content named by s), which Python cannot hash.                     *)
(***************************************************************************)
Elem(t, s, n) == [t |-> t, s |-> s, n |-> n]
Val(t, s, n, l) == [t |-> t, s |-> s, n |-> n, l |-> l]

PyNone == Val("none", "", 0, <<>>)
PyTrue == Val("bool", "", 1, <<>>)
PyFalse == Val("bool", "", 0, <<>>)
PyInt(n) == Val("int", "", n, <<>>)
PyStr(s) == Val("str", s, 0, <<>>)
PyList(l) == Val("list", "", 0, l)
PyCallable(name) == Val("callable", name, 0, <<>>)
\* A float is kept in tenths (4.5 is 45); inf, nan and a float finer than a
\* tenth are named by s.
PyFloat(tenths) == Val("float", "", tenths, <<>>)
PyFloatNamed(text) == Val("float", text, 0, <<>>)
\* A dict is kept by its keys, in insertion order.
PyDict(keys) == Val("dict", "", 0, keys)
PyBool(b) == IF b THEN PyTrue ELSE PyFalse
\* An object that is none of the above, named by s.
PyObject(name) == Val("object", name, 0, <<>>)

EStr(s) == Elem("str", s, 0)
ENested(content) == Elem("list", content, 0)
AsElem(v) == Elem(v.t, v.s, v.n)

\* Python's == on list elements: bool and int compare by number (True == 1),
\* everything else by type and content.
NumericTypes == {"bool", "int"}
PyEqElem(a, b) ==
    IF a.t \in NumericTypes /\ b.t \in NumericTypes
    THEN a.n = b.n
    ELSE a = b

\* Python's == on values: lists compare element by element, a list never
\* equals a non-list.
PyEq(a, b) ==
    IF a.t = "list" /\ b.t = "list"
    THEN /\ Len(a.l) = Len(b.l)
         /\ \A i \in 1..Len(a.l) : PyEqElem(a.l[i], b.l[i])
    ELSE IF a.t = "list" \/ b.t = "list"
    THEN FALSE
    ELSE PyEqElem(AsElem(a), AsElem(b))

\* bool(v)
Truthy(v) ==
    CASE v.t = "none" -> FALSE
      [] v.t \in NumericTypes -> v.n # 0
      [] v.t = "float" -> v.n # 0 \/ v.s # ""
      [] v.t = "str" -> v.s # ""
      [] v.t \in {"list", "dict"} -> Len(v.l) > 0
      [] OTHER -> TRUE

\* set(list) raises TypeError when an element is unhashable.
Hashable(e) == e.t \notin {"list", "dict"}
SetRaises(v) == \E i \in 1..Len(v.l) : ~Hashable(v.l[i])

\* x in list: some element equals x.
PyIn(x, lst) == \E j \in 1..Len(lst.l) : PyEqElem(AsElem(x), lst.l[j])

(***************************************************************************)
(* Outcomes of an evaluation that may raise: "True", "False", "raise".     *)
(***************************************************************************)
OfBool(b) == IF b THEN "True" ELSE "False"

(***************************************************************************)
(* Predicate rules.  The callables the module itself configures            *)
(* (create_system_performance_tools, the self test) and one that accepts   *)
(* an absent annotation.                                                   *)
(***************************************************************************)
LongTitle == "system journal receiver usage and growth over the last month"
LowerChar(c) ==
    CASE c = "A" -> "a" [] c = "B" -> "b" [] c = "C" -> "c" [] c = "D" -> "d"
      [] c = "E" -> "e" [] c = "F" -> "f" [] c = "G" -> "g" [] c = "H" -> "h"
      [] c = "I" -> "i" [] c = "J" -> "j" [] c = "K" -> "k" [] c = "L" -> "l"
      [] c = "M" -> "m" [] c = "N" -> "n" [] c = "O" -> "o" [] c = "P" -> "p"
      [] c = "Q" -> "q" [] c = "R" -> "r" [] c = "S" -> "s" [] c = "T" -> "t"
      [] c = "U" -> "u" [] c = "V" -> "v" [] c = "W" -> "w" [] c = "X" -> "x"
      [] c = "Y" -> "y" [] c = "Z" -> "z"
      [] OTHER -> c

\* str.lower(), character by character.
RECURSIVE LowerFrom(_, _)
LowerFrom(s, i) ==
    IF i > Len(s) THEN ""
    ELSE LowerChar(SubSeq(s, i, i)) \o LowerFrom(s, i + 1)

Lower(s) == LowerFrom(s, 1)
\* "system" in s
ContainsSystem(s) ==
    \E i \in 1..Len(s) : i + 5 <= Len(s) /\ SubSeq(s, i, i + 5) = "system"

\* lambda title: title and "system" in title.lower()
TitleMentionsSystem(v) ==
    IF ~Truthy(v) THEN "False"
    ELSE IF v.t = "str" THEN OfBool(ContainsSystem(Lower(v.s)))
    ELSE "raise"

\* lambda t: t and len(t) < 50 if t else False
TitleIsShort(v) ==
    IF ~Truthy(v) THEN "False"
    ELSE IF v.t = "str" THEN OfBool(Len(v.s) < 50)
    ELSE IF v.t = "list" THEN OfBool(Len(v.l) < 50)
    ELSE "raise"

\* lambda value: value is None
IsAbsent(v) == OfBool(v.t = "none")

CallPredicate(name, v) ==
    CASE name = "title_mentions_system" -> TitleMentionsSystem(v)
      [] name = "title_is_short" -> TitleIsShort(v)
      [] name = "is_absent" -> IsAbsent(v)
      [] OTHER -> "raise"

(***************************************************************************)
(* _annotation_value_matches_filter                                        *)
(***************************************************************************)
\* The list annotation is looked up in the rule list as one value.
ListRuleMatches_membership_only(annotation_value, filter_value) ==
    OfBool(annotation_value.t # "list" /\ PyIn(annotation_value, filter_value))

\* isinstance(filter_value, list): set intersection for a list annotation,
\* membership otherwise.
ListRuleMatches(annotation_value, filter_value) ==
    IF annotation_value.t = "list"
    THEN IF SetRaises(annotation_value) \/ SetRaises(filter_value)
         THEN "raise"
         ELSE OfBool(\E i \in 1..Len(annotation_value.l) :
                        \E j \in 1..Len(filter_value.l) :
                           PyEqElem(annotation_value.l[i], filter_value.l[j]))
    ELSE OfBool(PyIn(annotation_value, filter_value))

AnnotationValueMatchesFilter(annotation_value, filter_value) ==
    IF filter_value.t = "callable"
    THEN \* try: bool(filter_value(annotation_value)) except Exception: False
         IF CallPredicate(filter_value.s, annotation_value) = "True"
         THEN "True" ELSE "False"
    ELSE IF filter_value.t = "list"
    THEN ListRuleMatches(annotation_value, filter_value)
    ELSE OfBool(PyEq(annotation_value, filter_value))

(***************************************************************************)
(* Tool descriptors.  annotations maps the annotation keys the tool        *)
(* carries to their values; has_annotations is FALSE for a tool whose      *)
(* annotations attribute is None.  inputSchema is the tool's JSON schema:  *)
(* is_none for None, has_properties for the "properties" key, properties   *)
(* mapping each declared name to its "type" ("" for a property without     *)
(* "type").                                                                *)
(***************************************************************************)
Schema(is_none, has_properties, properties) ==
    [is_none |-> is_none, has_properties |-> has_properties, properties |-> properties]
NoProperties == [k \in {} |-> ""]
SchemaOf(properties) == Schema(FALSE, TRUE, properties)
EmptySchema == Schema(FALSE, FALSE, NoProperties)

Tool(name, description, inputSchema, has_annotations, annotations) ==
    [name |-> name, description |-> description, inputSchema |-> inputSchema,
     has_annotations |-> has_annotations, annotations |-> annotations]

NoKeys == [k \in {} |-> PyNone]

\* _get_annotation_value: None for a tool without annotations or without
\* the key.
GetAnnotationValue(tool, annotation_key) ==
    IF tool.has_annotations
    THEN IF annotation_key \in DOMAIN tool.annotations
         THEN tool.annotations[annotation_key]
         ELSE PyNone
    ELSE PyNone

(***************************************************************************)
(* The custom_filter callables handed to the constructor ("" is None).     *)
(***************************************************************************)
\* lambda tool: tool.name != "y"
NameIsNotY(tool) == OfBool(tool.name # "y")

\* lambda tool: "b" in tool.annotations.toolsets
\* AttributeError without annotations, TypeError when toolsets is None.
InToolsetB(tool) ==
    IF ~tool.has_annotations THEN "raise"
    ELSE IF "toolsets" \notin DOMAIN tool.annotations THEN "raise"
    ELSE IF tool.annotations["toolsets"].t = "list"
    THEN OfBool(PyIn(PyStr("b"), tool.annotations["toolsets"]))
    ELSE IF tool.annotations["toolsets"].t = "str"
    THEN OfBool(tool.annotations["toolsets"].s = "b")
    ELSE "raise"

CallCustomFilter(name, tool) ==
    CASE name = "name_is_not_y" -> NameIsNotY(tool)
      [] name = "in_toolset_b" -> InToolsetB(tool)
      [] OTHER -> "raise"

(***************************************************************************)
(* _should_include_tool.  annotation_filters is the mapping in insertion   *)
(* order, a sequence of <<annotation_key, filter_value>>.  The decision    *)
(* records the result ("raise": an exception leaves the method), whether   *)
(* the custom filter was called and the keys whose rule was evaluated.     *)
(***************************************************************************)
Decision(result, custom_called, evaluated) ==
    [result |-> result, custom_called |-> custom_called, evaluated |-> evaluated]

\* A missing annotation skips the rule instead of being matched as None.
RuleOutcome_skip_absent(tool, annotation_key, filter_value) ==
    IF tool.has_annotations /\ annotation_key \in DOMAIN tool.annotations
    THEN AnnotationValueMatchesFilter(tool.annotations[annotation_key], filter_value)
    ELSE "True"

\* One turn of the loop over annotation_filters.items().
RuleOutcome(tool, annotation_key, filter_value) ==
    AnnotationValueMatchesFilter(GetAnnotationValue(tool, annotation_key), filter_value)

RECURSIVE ApplyAnnotationFilters(_, _, _, _)
ApplyAnnotationFilters(tool, annotation_filters, i, decision) ==
    IF i > Len(annotation_filters)
    THEN decision
    ELSE LET annotation_key == annotation_filters[i][1]
             filter_value == annotation_filters[i][2]
             m == RuleOutcome(tool, annotation_key, filter_value)
             seen == Append(decision.evaluated, annotation_key)
         IN  IF m = "True"
             THEN ApplyAnnotationFilters(tool, annotation_filters, i + 1,
                                         Decision("True", decision.custom_called, seen))
             ELSE Decision(m, decision.custom_called, seen)

\* The annotation rules run first and the custom filter last.
ShouldIncludeTool_rules_first(tool, custom_filter, annotation_filters) ==
    LET d == ApplyAnnotationFilters(tool, annotation_filters, 1,
                                    Decision("True", FALSE, <<>>))
    IN  IF d.result = "True" /\ custom_filter # ""
        THEN Decision(IF CallCustomFilter(custom_filter, tool) = "True"
                      THEN "True" ELSE "False", TRUE, d.evaluated)
        ELSE d

ShouldIncludeTool(tool, custom_filter, annotation_filters) ==
    IF custom_filter # "" /\ CallCustomFilter(custom_filter, tool) # "True"
    THEN \* returned false, or raised inside the try
         Decision("False", TRUE, <<>>)
    ELSE ApplyAnnotationFilters(tool, annotation_filters, 1,
                                Decision("True", custom_filter # "", <<>>))

(***************************************************************************)
(* Python's conversions of a value: int(), float(), str(), list(), dict(). *)
(* A conversion ends with a value or with an exception:                    *)
(*   error  "" or the exception's class;  value  the value when error = "" *)
(***************************************************************************)
Conversion(error, value) == [error |-> error, value |-> value]
Converted(value) == Conversion("", value)
Fails(error) == Conversion(error, PyNone)

IsSpace(c) == c \in {" ", "\t", "\n"}
IsDigit(c) == c \in {"0", "1", "2", "3", "4", "5", "6", "7", "8", "9"}
DigitValue(c) ==
    CASE c = "0" -> 0 [] c = "1" -> 1 [] c = "2" -> 2 [] c = "3" -> 3
      [] c = "4" -> 4 [] c = "5" -> 5 [] c = "6" -> 6 [] c = "7" -> 7
      [] c = "8" -> 8 [] c = "9" -> 9
DigitChar(d) ==
    CASE d = 0 -> "0" [] d = 1 -> "1" [] d = 2 -> "2" [] d = 3 -> "3"
      [] d = 4 -> "4" [] d = 5 -> "5" [] d = 6 -> "6" [] d = 7 -> "7"
      [] d = 8 -> "8" [] d = 9 -> "9"

CharAt(s, i) == SubSeq(s, i, i)
From(s, i) == SubSeq(s, i, Len(s))

\* str.strip()
RECURSIVE LStrip(_)
LStrip(s) == IF Len(s) > 0 /\ IsSpace(CharAt(s, 1)) THEN LStrip(From(s, 2)) ELSE s
RECURSIVE RStrip(_)
RStrip(s) ==
    IF Len(s) > 0 /\ IsSpace(CharAt(s, Len(s)))
    THEN RStrip(SubSeq(s, 1, Len(s) - 1))
    ELSE s
Strip(s) == RStrip(LStrip(s))

AllDigits(s) == \A i \in 1..Len(s) : IsDigit(CharAt(s, i))
AllZeros(s) == \A i \in 1..Len(s) : CharAt(s, i) = "0"

\* The number a string of digits writes ("" writes 0).
RECURSIVE DigitsValue(_)
DigitsValue(s) ==
    IF Len(s) = 0 THEN 0
    ELSE 10 * DigitsValue(SubSeq(s, 1, Len(s) - 1)) + DigitValue(CharAt(s, Len(s)))

\* A literal's sign and what follows it.
HasSign(s) == Len(s) > 0 /\ CharAt(s, 1) \in {"+", "-"}
IsNegative(s) == Len(s) > 0 /\ CharAt(s, 1) = "-"
Unsigned(s) == IF HasSign(s) THEN From(s, 2) ELSE s
Signed(s, n) == IF IsNegative(s) THEN 0 - n ELSE n

\* int(s): surrounding whitespace, a sign, decimal digits.  (Underscores
\* between digits and non-ASCII digits are not among the strings used.)
IntOf(s) ==
    LET t == Strip(s)
        digits == Unsigned(t)
    IN  IF Len(digits) > 0 /\ AllDigits(digits)
        THEN Converted(PyInt(Signed(t, DigitsValue(digits))))
        ELSE Fails("ValueError")

\* The first position of character c in s, 0 when there is none.
IndexOf(s, c) ==
    IF \E i \in 1..Len(s) : CharAt(s, i) = c
    THEN CHOOSE i \in 1..Len(s) :
            CharAt(s, i) = c /\ \A j \in 1..(i - 1) : CharAt(s, j) # c
    ELSE 0

RECURSIVE TenTo(_)
TenTo(k) == IF k = 0 THEN 1 ELSE 10 * TenTo(k - 1)

\* float(s): whitespace, a sign, then inf, infinity or nan in any case, or
\* digits with an optional point and an optional exponent.
FloatOf(s) ==
    LET t == Lower(Strip(s))
        body == Unsigned(t)
        e == IndexOf(body, "e")
        mantissa == IF e = 0 THEN body ELSE SubSeq(body, 1, e - 1)
        exponent == IF e = 0 THEN "0" ELSE From(body, e + 1)
        point == IndexOf(mantissa, ".")
        whole == IF point = 0 THEN mantissa ELSE SubSeq(mantissa, 1, point - 1)
        fraction == IF point = 0 THEN "" ELSE From(mantissa, point + 1)
        wellFormed ==
            /\ AllDigits(whole) /\ AllDigits(fraction)
            /\ Len(whole) + Len(fraction) > 0
            /\ Len(Unsigned(exponent)) > 0 /\ AllDigits(Unsigned(exponent))
        tenths == 10 * DigitsValue(whole)
                     + (IF Len(fraction) > 0 THEN DigitValue(CharAt(fraction, 1)) ELSE 0)
        inTenths == Len(fraction) <= 1 \/ AllZeros(From(fraction, 2))
        power == DigitsValue(Unsigned(exponent))
    IN  IF body \in {"inf", "infinity"}
        THEN Converted(PyFloatNamed(IF IsNegative(t) THEN "-inf" ELSE "inf"))
        ELSE IF body = "nan"
        THEN Converted(PyFloatNamed("nan"))
        ELSE IF ~wellFormed
        THEN Fails("ValueError")
        ELSE IF AllZeros(whole) /\ AllZeros(fraction)
        THEN Converted(PyFloat(0))
        ELSE IF inTenths /\ ~IsNegative(exponent)
        THEN Converted(PyFloat(Signed(t, tenths * TenTo(power))))
        ELSE Converted(PyFloatNamed(t))

\* str(n) of an int.
RECURSIVE NaturalText(_)
NaturalText(n) ==
    IF n < 10 THEN DigitChar(n)
    ELSE NaturalText(n \div 10) \o DigitChar(n % 10)
IntText(n) == IF n < 0 THEN "-" \o NaturalText(0 - n) ELSE NaturalText(n)

\* repr() of a list element; a nested list named s is the list [s].
ElemText(e) ==
    CASE e.t = "none" -> "None"
      [] e.t = "bool" -> IF e.n = 1 THEN "True" ELSE "False"
      [] e.t = "int" -> IntText(e.n)
      [] e.t = "str" -> "'" \o e.s \o "'"
      [] OTHER -> "['" \o e.s \o "']"

RECURSIVE JoinElems(_, _)
JoinElems(l, i) ==
    IF i > Len(l) THEN ""
    ELSE ElemText(l[i]) \o (IF i < Len(l) THEN ", " ELSE "") \o JoinElems(l, i + 1)

\* str(value); a dict's values are not kept, its text writes them as "...".
RECURSIVE JoinKeys(_, _)
JoinKeys(l, i) ==
    IF i > Len(l) THEN ""
    ELSE ElemText(l[i]) \o ": ..." \o (IF i < Len(l) THEN ", " ELSE "")
            \o JoinKeys(l, i + 1)

StrOf(value) ==
    CASE value.t = "none" -> "None"
      [] value.t = "bool" -> IF value.n = 1 THEN "True" ELSE "False"
      [] value.t = "int" -> IntText(value.n)
      [] value.t = "float" ->
            IF value.s # "" THEN value.s
            ELSE (IF value.n < 0 THEN "-" ELSE "")
                    \o NaturalText((IF value.n < 0 THEN 0 - value.n ELSE value.n) \div 10)
                    \o "." \o DigitChar((IF value.n < 0 THEN 0 - value.n ELSE value.n) % 10)
      [] value.t = "str" -> value.s
      [] value.t = "list" -> "[" \o JoinElems(value.l, 1) \o "]"
      [] value.t = "dict" -> "{" \o JoinKeys(value.l, 1) \o "}"
      [] OTHER -> "<function " \o value.s \o ">"

\* list(value): the characters of a str, the keys of a dict; a number, a
\* bool or None is not iterable.
ListOf(value) ==
    CASE value.t = "list" -> Converted(value)
      [] value.t = "str" ->
            Converted(PyList([i \in 1..Len(value.s) |-> EStr(CharAt(value.s, i))]))
      [] value.t = "dict" -> Converted(PyList(value.l))
      [] OTHER -> Fails("TypeError")

\* The keys of a sequence of two-character strings, each key once.
RECURSIVE PairKeys(_, _, _)
PairKeys(l, i, acc) ==
    IF i > Len(l) THEN acc
    ELSE LET k == EStr(CharAt(l[i].s, 1))
         IN  PairKeys(l, i + 1,
                      IF \E j \in 1..Len(acc) : acc[j] = k THEN acc ELSE Append(acc, k))

\* dict(value): every item of the iterable must itself be an iterable of
\* two items.  A str of two characters is one; a character of a str, a
\* nested list [s] and a str of another length are not (ValueError); a
\* number, a bool or None cannot be iterated (TypeError).
DictOf(value) ==
    LET items == IF value.t = "str" THEN ListOf(value).value.l ELSE value.l
        isPair(e) == e.t = "str" /\ Len(e.s) = 2
        firstBad == CHOOSE i \in 1..Len(items) :
                       ~isPair(items[i]) /\ \A j \in 1..(i - 1) : isPair(items[j])
    IN  CASE value.t = "dict" -> Converted(value)
          [] value.t \in {"str", "list"} ->
                IF \A i \in 1..Len(items) : isPair(items[i])
                THEN Converted(PyDict(PairKeys(items, 1, <<>>)))
                ELSE IF items[firstBad].t \in {"str", "list"}
                THEN Fails("ValueError")
                ELSE Fails("TypeError")
          [] OTHER -> Fails("TypeError")

(***************************************************************************)
(* _coerce_parameters.  params maps the names the caller supplied to       *)
(* their values, schema is the tool's inputSchema.                         *)
(***************************************************************************)
NoParams == [k \in {} |-> PyNone]

\* The comparison is made without lower().
IsTrueWord_case_sensitive(text) == text \in {"true", "1", "yes"}

\* value.lower() in ("true", "1", "yes")
IsTrueWord(text) == Lower(text) \in {"true", "1", "yes"}

\* The body of the try, for one declared type.
Convert_repr_of_strings(prop_type, value) ==
    IF prop_type = "string"
    THEN Converted(PyStr(IF value.t = "str" THEN "'" \o value.s \o "'" ELSE StrOf(value)))
    ELSE Converted(value)

Convert(prop_type, value) ==
    CASE prop_type \in {"number", "integer"} ->
            IF value.t = "str"
            THEN (IF prop_type = "integer" THEN IntOf(value.s) ELSE FloatOf(value.s))
            ELSE Converted(value)
      [] prop_type = "boolean" ->
            IF value.t = "str"
            THEN Converted(PyBool(IsTrueWord(value.s)))
            ELSE Converted(PyBool(Truthy(value)))
      [] prop_type = "string" ->
            IF value.t # "str" THEN Converted(PyStr(StrOf(value))) ELSE Converted(value)
      [] prop_type = "array" ->
            IF value.t # "list" THEN ListOf(value) ELSE Converted(value)
      [] prop_type = "object" ->
            IF value.t # "dict" THEN DictOf(value) ELSE Converted(value)
      [] OTHER -> Converted(value)

\* The try has no except clause.
CaughtErrors_none == {}

\* except (ValueError, TypeError)
CaughtErrors == {"ValueError", "TypeError"}

\* coerced[key] != value
Differs(a, b) ==
    IF a.t = "dict" /\ b.t = "dict" THEN a.l # b.l
    ELSE IF a.t = "float" /\ b.t = "float" THEN a # b \/ a.s = "nan"
    ELSE ~PyEq(a, b)

\* The message is put together with +, which raises TypeError on a value
\* that is not a str.
CoercionMessage_concatenates(key, value, coerced_value) ==
    IF value.t = "str" /\ coerced_value.t = "str"
    THEN Converted(PyStr("Parameter coercion: " \o key \o " from " \o value.s
                            \o " to " \o coerced_value.s))
    ELSE Fails("TypeError")

\* f"Parameter coercion: {key} from {type(value).__name__}({value}) to
\* {type(coerced[key]).__name__}({coerced[key]})"
CoercionMessage(key, value, coerced_value) ==
    Converted(PyStr("Parameter coercion: " \o key \o " from " \o value.t \o "("
                       \o StrOf(value) \o ") to " \o coerced_value.t \o "("
                       \o StrOf(coerced_value) \o ")"))

\* One turn of "for key, value in params.items()" on an instance whose
\* debug_filtering is debug: the value stored under key or the exception
\* that leaves the method, and the messages handed to self.log.
Turn(conversion, messages) ==
    [error |-> conversion.error, value |-> conversion.value, messages |-> messages]

\* if self.debug_filtering and coerced[key] != value: self.log(...)
MessageOutcome(debug, key, value, c) ==
    IF c.error = "" /\ debug /\ Differs(c.value, value)
    THEN CoercionMessage(key, value, c.value)
    ELSE Converted(PyNone)

\* The end of the try of lines 248-278: c is the conversion, m the message;
\* an error of either is caught when it is a ValueError or a TypeError.
TurnOutcome(value, c, m) ==
    IF c.error = "" /\ m.error = ""
    THEN Turn(c, IF m.value = PyNone THEN {} ELSE {"coercion"})
    ELSE IF (IF c.error # "" THEN c.error ELSE m.error) \in CaughtErrors
    THEN Turn(Converted(value), {"coercion_failed"})
    ELSE Turn(Fails(IF c.error # "" THEN c.error ELSE m.error), {})

Converting(debug, key, value, c) ==
    TurnOutcome(value, c, MessageOutcome(debug, key, value, c))

CoerceParameter(debug, key, value, properties) ==
    IF key \notin DOMAIN properties
    THEN Turn(Converted(value), {})
    ELSE IF properties[key] = "" \/ value.t = "none"
    THEN Turn(Converted(value), {})
    ELSE Converting(debug, key, value, Convert(properties[key], value))

\* The result on an instance whose debug_filtering is debug: error "" and
\* the coerced mapping, or the exception that left the loop; the messages
\* handed to self.log.
CoerceParametersWith(debug, params, schema) ==
    IF schema.is_none \/ ~schema.has_properties
    THEN [error |-> "", params |-> params, messages |-> {}]
    ELSE LET turn == [key \in DOMAIN params |->
                         CoerceParameter(debug, key, params[key], schema.properties)]
             raised == {key \in DOMAIN params : turn[key].error # ""}
             messages == UNION {turn[key].messages : key \in DOMAIN params}
         IN  IF raised = {}
             THEN [error |-> "", params |-> [key \in DOMAIN params |-> turn[key].value],
                   messages |-> messages]
             ELSE [error |-> turn[CHOOSE key \in raised : TRUE].error, params |-> NoParams,
                   messages |-> messages]

(***************************************************************************)
(* __init__: the two forms of the filter specification.  The argument      *)
(* annotation_filters is [none, rules] (none: the argument is None), the   *)
(* argument toolsets is None, a str or a list.                             *)
(***************************************************************************)
FiltersArg(none, rules) == [none |-> none, rules |-> rules]

\* The two forms given together are accepted.
ConflictingForms_unchecked(toolsets, filters) == FALSE

\* if toolsets is not None and annotation_filters is not None: raise ValueError
ConflictingForms(toolsets, filters) == toolsets.t # "none" /\ ~filters.none

\* The legacy value is stored as the rule without being made a list.
NormalizeToolsets_as_given(toolsets) == toolsets

\* toolsets_list = [toolsets] if isinstance(toolsets, str) else list(toolsets)
NormalizeToolsets(toolsets) ==
    IF toolsets.t = "str"
    THEN PyList(<<AsElem(toolsets)>>)
    ELSE ListOf(toolsets).value

\* self.annotation_filters, from the arguments.
StoredFilters(toolsets, filters) ==
    IF ~filters.none
    THEN filters.rules
    ELSE IF toolsets.t # "none"
    THEN << <<"toolsets", NormalizeToolsets(toolsets)>> >>
    ELSE <<>>

\* The constructor call: its state ("new" before the call, "constructed",
\* "raised"), its two filter arguments, whether it has stored the filter
\* configuration (lines 81-95) and whether it has handed the session and
\* the name lists to the parent class (line 98).
Construction(state, toolsets, filters, stored, parent) ==
    [state |-> state, toolsets |-> toolsets, filters |-> filters,
     stored |-> stored, parent |-> parent]
NotConstructed == Construction("new", PyNone, FiltersArg(TRUE, <<>>), FALSE, FALSE)
ConstructedFrom(rules) ==
    Construction("constructed", PyNone, FiltersArg(FALSE, rules), TRUE, TRUE)

(***************************************************************************)
(* State.                                                                  *)
(***************************************************************************)
VARIABLES
    \* the constructor's arguments, as stored on the instance
    annotation_filters,        \* sequence of <<annotation_key, filter_value>>
    custom_filter,             \* name of the callable, "" for None
    include_tools,             \* [none, names]
    exclude_tools,             \* [none, names]
    session,                   \* FALSE: self.session is None
    \* the instance
    initialized,               \* self._initialized
    functions,                 \* self.functions: tool name -> Function
    \* the initialize() calls
    pc,                        \* where each call is suspended
    functions_at_entry,        \* self.functions when the running pass began
    last_result,               \* how the last call ended
    failed_once,               \* some call has raised
    \* the locals of the last pass that fetched a catalogue
    available_tools,
    decisions,                 \* _should_include_tool's decision per tool
    annotation_filtered_tools,
    final_filtered_tools,
    registered,                \* the tools registered, in registration order
    build_failed,              \* positions of final_filtered_tools whose build raised
    \* the last evaluation of the pure filter functions
    match_probe,
    include_probe,
    \* the last evaluation of _coerce_parameters
    coerce_probe,
    \* the invocations of registered actions
    invocations,
    \* the constructor call that made the instance
    construction,
    \* self.debug_filtering and the messages log() has handed to log_debug
    debug_filtering,
    logged,
    \* the catalogue each initialize() call got from list_tools()
    fetched,
    \* an AgentConfigManager: self.agent_config and the calls made on it
    agent_config,
    config_calls

config_vars == <<annotation_filters, custom_filter, include_tools, exclude_tools, session,
                 debug_filtering>>
pass_vars == <<available_tools, decisions, annotation_filtered_tools,
               final_filtered_tools, registered, build_failed>>
instance_vars == <<initialized, functions, pc, functions_at_entry, last_result, failed_once>>
probe_vars == <<match_probe, include_probe, coerce_probe>>
invoke_vars == <<invocations>>
construct_vars == <<construction>>
log_vars == <<logged>>
snapshot_vars == <<fetched>>
manager_vars == <<agent_config, config_calls>>
vars == <<config_vars, instance_vars, pass_vars, probe_vars, invoke_vars, construct_vars,
          log_vars, snapshot_vars, manager_vars>>

Calls == {"c1"}
Opt(none, names) == [none |-> none, names |-> names]
\* fetched[c] of a call that has not got a catalogue.
NoSnapshot == [fetched |-> FALSE, tools |-> <<>>]

(***************************************************************************)
(* _coerce_parameters on the instance.                                     *)
(***************************************************************************)
\* The loop runs over the declared properties: an undeclared name is dropped.
CoerceParameters_declared_only(params, schema) ==
    IF schema.is_none \/ ~schema.has_properties
    THEN [error |-> "", params |-> params, messages |-> {}]
    ELSE [error |-> "",
          params |-> [key \in DOMAIN params \cap DOMAIN schema.properties |->
                         CoerceParameter(debug_filtering, key, params[key],
                                         schema.properties).value],
          messages |-> {}]

\* self._coerce_parameters(params, schema)
CoerceParameters(params, schema) == CoerceParametersWith(debug_filtering, params, schema)

(***************************************************************************)
(* The catalogues the remote server may return.                            *)
(***************************************************************************)
Toolsets(l) == [k \in {"toolsets"} |-> PyList(l)]
SchemaX == SchemaOf([n |-> "integer", r |-> "number", limit |-> "integer"])
SchemaY == SchemaOf([flag |-> "boolean"])
SchemaZ == SchemaOf([n |-> "string"])
ToolX == Tool("x", "x of toolset a", SchemaX, TRUE, Toolsets(<<EStr("a")>>))
ToolY == Tool("y", "y of toolsets b, c", SchemaY, TRUE,
              Toolsets(<<EStr("b"), EStr("c")>>))
ToolZ == Tool("z", "z of toolsets c, d", SchemaZ, TRUE,
              Toolsets(<<EStr("c"), EStr("d")>>))
ToolPlain == Tool("z", "z without annotations", EmptySchema, FALSE, NoKeys)
ToolNested == Tool("y", "y with a nested toolset", SchemaY, TRUE,
                   Toolsets(<<ENested("a"), EStr("b")>>))
ToolPool == {ToolX, ToolY, ToolZ, ToolPlain, ToolNested}
Catalogues == UNION {[1..n -> ToolPool] : n \in 0..MaxTools}

(***************************************************************************)
(* The configurations an instance is constructed with.                     *)
(***************************************************************************)
FilterConfigs ==
    { <<>>,
      << <<"toolsets", PyList(<<EStr("a"), EStr("b")>>)>> >>,
      << <<"title", PyCallable("is_absent")>>,
         <<"toolsets", PyList(<<EStr("b"), EStr("c"), EStr("d")>>)>> >> }
CustomFilters == {"", "name_is_not_y", "in_toolset_b"}
IncludeConfigs == {Opt(TRUE, {}), Opt(FALSE, {"x", "y"}), Opt(FALSE, {})}
ExcludeConfigs == {Opt(TRUE, {}), Opt(FALSE, {"y"}), Opt(FALSE, {})}

(***************************************************************************)
(* initialize(): the loops that run after the catalogue has been fetched.  *)
(***************************************************************************)
\* The accepted tool is put in front of the list instead of at its end.
AppendTool_prepend(tools, tool) == <<tool>> \o tools

\* annotation_filtered_tools.append(tool), final_filtered_tools.append(tool)
AppendTool(tools, tool) == Append(tools, tool)

\* log(): the message reaches log_debug only when debug_filtering is set.
Log(messages) == IF debug_filtering THEN logged \cup messages ELSE logged

\* The messages _should_include_tool hands to self.log for its decision d.
DecisionMessages(tool, cf, d) ==
    IF cf # "" /\ CallCustomFilter(cf, tool) = "False" THEN {"custom_excluded"}
    ELSE IF cf # "" /\ CallCustomFilter(cf, tool) = "raise" THEN {"custom_error"}
    ELSE IF d.result = "False" THEN {"rule_excluded"}
    ELSE {}

\* ", ".join(f"{annotation_key}={annotation_value}" ...) over the keys of
\* annotation_filters, the values got through _get_annotation_value.
RECURSIVE AnnotationsInfo(_, _, _)
AnnotationsInfo(tool, af, i) ==
    IF i > Len(af) THEN ""
    ELSE af[i][1] \o "=" \o StrOf(GetAnnotationValue(tool, af[i][1]))
            \o (IF i < Len(af) THEN ", " ELSE "") \o AnnotationsInfo(tool, af, i + 1)

\* The values are read as tool.annotations.<key>: AttributeError on a tool
\* whose annotations are None.
ExclusionMessage_reads_annotations(tool, af) ==
    IF af # <<>> /\ ~tool.has_annotations
    THEN Fails("AttributeError")
    ELSE Converted(PyStr("Excluding tool: " \o tool.name \o " ("
                            \o AnnotationsInfo(tool, af, 1) \o ")"))

\* if self.debug_filtering: ... self.log(f"Excluding tool: {tool.name} ({annotations_str})")
ExclusionMessage(tool, af) ==
    Converted(PyStr("Excluding tool: " \o tool.name \o " ("
                       \o (IF af = <<>> THEN "no matching annotations"
                           ELSE AnnotationsInfo(tool, af, 1)) \o ")"))

\* if self.debug_filtering and (self.annotation_filters or self.custom_filter):
\* the line before the loop and the line after it.
HeaderMessage(debug, cf, af, message) ==
    IF debug /\ (af # <<>> \/ cf # "") THEN {message} ELSE {}

\* for tool in available_tools.tools: if self._should_include_tool(tool): ...
\* on an instance whose debug_filtering is debug.  An exception of
\* _should_include_tool or of the else branch leaves the loop.
NothingFiltered == [raised |-> FALSE, tools |-> <<>>, decisions |-> <<>>, messages |-> {}]

RECURSIVE FilterCatalogueWith(_, _, _, _, _, _)
FilterCatalogueWith(debug, tools, i, cf, af, acc) ==
    IF i > Len(tools)
    THEN acc
    ELSE LET d == ShouldIncludeTool(tools[i], cf, af)
             seen == Append(acc.decisions, d)
             said == acc.messages \cup DecisionMessages(tools[i], cf, d)
             m == IF d.result = "False" /\ debug
                  THEN ExclusionMessage(tools[i], af)
                  ELSE Converted(PyNone)
         IN  IF d.result = "raise" \/ m.error # ""
             THEN [raised |-> TRUE, tools |-> acc.tools, decisions |-> seen,
                   messages |-> said]
             ELSE FilterCatalogueWith(debug, tools, i + 1, cf, af,
                    [raised |-> FALSE,
                     tools |-> IF d.result = "True"
                               THEN AppendTool(acc.tools, tools[i])
                               ELSE acc.tools,
                     decisions |-> seen,
                     messages |-> said \cup (IF d.result = "True" THEN {"including"}
                                             ELSE IF debug THEN {"excluding"} ELSE {})])

FilterCatalogue(tools, i, cf, af, acc) ==
    FilterCatalogueWith(debug_filtering, tools, i, cf, af, acc)

\* The include-list is looked at first: a name in it is kept.
PassesNameFilter_include_first(tool, include, exclude) ==
    IF ~include.none /\ tool.name \in include.names
    THEN TRUE
    ELSE /\ ~(~exclude.none /\ exclude.names # {} /\ tool.name \in exclude.names)
         /\ include.none

\* if self.exclude_tools and tool.name in self.exclude_tools: continue
\* if self.include_tools is None or tool.name in self.include_tools: append
PassesNameFilter(tool, include, exclude) ==
    IF ~exclude.none /\ exclude.names # {} /\ tool.name \in exclude.names
    THEN FALSE
    ELSE include.none \/ tool.name \in include.names

NameFilter_keeps_all(tools, i, include, exclude, acc) == tools

RECURSIVE NameFilter(_, _, _, _, _)
NameFilter(tools, i, include, exclude, acc) ==
    IF i > Len(tools)
    THEN acc
    ELSE NameFilter(tools, i + 1, include, exclude,
                    IF PassesNameFilter(tools[i], include, exclude)
                    THEN AppendTool(acc, tools[i])
                    ELSE acc)

\* The wrapper made for the first tool is reused for every tool.
CoercingEntrypoint_of_one_tool(tool) ==
    [schema |-> ToolX.inputSchema, original_fn |-> ToolX.name]

\* create_coercing_entrypoint(self, tool.inputSchema, original_entrypoint):
\* the closure keeps the schema and the entrypoint of its own tool, which
\* get_entrypoint_for_tool(tool, self.session) has bound to the tool's name.
CoercingEntrypoint(tool) == [schema |-> tool.inputSchema, original_fn |-> tool.name]

\* Function(name=tool.name, description=tool.description,
\*          parameters=tool.inputSchema, entrypoint=entrypoint, ...)
Function(tool) ==
    [name |-> tool.name, description |-> tool.description,
     parameters |-> tool.inputSchema, entrypoint |-> CoercingEntrypoint(tool)]

\* The exception of a failed build leaves the loop.
RegisterTool_propagates(reg, tool, i, raises) ==
    IF reg.aborted THEN reg
    ELSE IF raises
    THEN [reg EXCEPT !.failed = @ \cup {i}, !.aborted = TRUE]
    ELSE [reg EXCEPT !.functions = (tool.name :> Function(tool)) @@ @,
                     !.registered = Append(@, tool)]

\* A failed build undoes the registrations made so far.
RegisterTool_rolls_back(reg, tool, i, raises) ==
    IF reg.aborted THEN reg
    ELSE IF raises
    THEN [reg EXCEPT !.failed = @ \cup {i}, !.functions = <<>>, !.registered = <<>>]
    ELSE [reg EXCEPT !.functions = (tool.name :> Function(tool)) @@ @,
                     !.registered = Append(@, tool)]

\* One turn of "for tool in final_filtered_tools: try: ... except Exception".
RegisterTool_keeps_first(reg, tool, i, raises) ==
    IF reg.aborted THEN reg
    ELSE IF raises
    THEN [reg EXCEPT !.failed = @ \cup {i}]
    ELSE [reg EXCEPT !.functions = @ @@ (tool.name :> Function(tool)),
                     !.registered = Append(@, tool)]

RegisterTool_replaces_registry(reg, tool, i, raises) ==
    IF reg.aborted THEN reg
    ELSE IF raises
    THEN [reg EXCEPT !.failed = @ \cup {i}]
    ELSE [reg EXCEPT !.functions = IF reg.registered = <<>>
                                   THEN (tool.name :> Function(tool))
                                   ELSE (tool.name :> Function(tool)) @@ @,
                     !.registered = Append(@, tool)]

RegisterTool(reg, tool, i, raises) ==
    IF reg.aborted THEN reg
    ELSE IF raises
    THEN [reg EXCEPT !.failed = @ \cup {i}]
    ELSE [reg EXCEPT !.functions = (tool.name :> Function(tool)) @@ @,
                     !.registered = Append(@, tool)]

RECURSIVE RegisterTools(_, _, _, _)
RegisterTools(tools, i, raising, reg) ==
    IF i > Len(tools)
    THEN reg
    ELSE RegisterTools(tools, i + 1, raising,
                       RegisterTool(reg, tools[i], i, i \in raising))

\* A pass starts with fresh locals.
ResetLocals ==
    /\ available_tools' = <<>>
    /\ decisions' = <<>>
    /\ annotation_filtered_tools' = <<>>
    /\ final_filtered_tools' = <<>>
    /\ registered' = <<>>
    /\ build_failed' = {}

(***************************************************************************)
(* initialize(), one action per stretch between two suspend points.        *)
(***************************************************************************)
\* The locals of a pass before it has fetched anything.
NoLocals ==
    /\ available_tools = <<>>
    /\ decisions = <<>>
    /\ annotation_filtered_tools = <<>>
    /\ final_filtered_tools = <<>>
    /\ registered = <<>>
    /\ build_failed = {}

\* The guard "if self._initialized: return" is missing.
AlreadyInitialized_never == FALSE

\* if self._initialized: return
AlreadyInitialized == initialized

\* The pass ends without setting the flag.
InitializedAfterPass_unset == FALSE

\* self._initialized = True
InitializedAfterPass == TRUE

\* The exception is swallowed: the call returns as after a completed pass.
Raise_swallowed(c, reason) ==
    /\ pc' = [pc EXCEPT ![c] = "idle"]
    /\ last_result' = "ready"
    /\ failed_once' = failed_once

Raise(c, reason) ==
    /\ pc' = [pc EXCEPT ![c] = "idle"]
    /\ last_result' = reason
    /\ failed_once' = TRUE

\* The test of self.session is missing.
SessionIsNone_unchecked == FALSE

\* if self.session is None: raise ValueError("Failed to establish session connection")
SessionIsNone == ~session

\* The call up to its first suspend point, await self.session.initialize().
InitializeCall(c) ==
    /\ pc[c] = "idle"
    /\ \/ /\ AlreadyInitialized
          /\ last_result' = "noop"
          /\ UNCHANGED <<pc, failed_once, functions_at_entry, pass_vars, log_vars,
                         snapshot_vars>>
       \/ /\ ~AlreadyInitialized
          /\ SessionIsNone
          /\ Raise(c, "no_session")
          /\ logged' = Log({"failed"})
          /\ UNCHANGED <<functions_at_entry, pass_vars, snapshot_vars>>
       \/ /\ ~AlreadyInitialized
          /\ ~SessionIsNone
          /\ pc' = [pc EXCEPT ![c] = "session_initialize"]
          /\ functions_at_entry' = functions
          /\ fetched' = [fetched EXCEPT ![c] = NoSnapshot]
          /\ UNCHANGED <<last_result, failed_once, log_vars>>
          /\ ResetLocals
    /\ UNCHANGED <<config_vars, initialized, functions, probe_vars, invoke_vars, construct_vars,
                   manager_vars>>

\* await self.session.initialize() returns; the call suspends in list_tools().
SessionInitializeReturns(c) ==
    /\ pc[c] = "session_initialize"
    /\ pc' = [pc EXCEPT ![c] = "list_tools"]
    /\ UNCHANGED <<config_vars, initialized, functions, functions_at_entry,
                   last_result, failed_once, pass_vars, probe_vars, invoke_vars, construct_vars,
                   log_vars, snapshot_vars, manager_vars>>

SessionInitializeRaises(c) ==
    /\ pc[c] = "session_initialize"
    /\ Raise(c, "session_initialize")
    /\ logged' = Log({"failed"})
    /\ UNCHANGED <<config_vars, initialized, functions, functions_at_entry,
                   pass_vars, probe_vars, invoke_vars, construct_vars,
                   snapshot_vars, manager_vars>>

ListToolsRaises(c) ==
    /\ pc[c] = "list_tools"
    /\ Raise(c, "list_tools")
    /\ logged' = Log({"failed"})
    /\ UNCHANGED <<config_vars, initialized, functions, functions_at_entry,
                   pass_vars, probe_vars, invoke_vars, construct_vars,
                   snapshot_vars, manager_vars>>

\* The messages of the registration loop.
RegisterMessages(reg) ==
    (IF reg.registered # <<>> THEN {"registered"} ELSE {})
        \cup (IF reg.failed # {} THEN {"register_failed"} ELSE {})

\* await self.session.list_tools() returns catalogue: the rest of the method
\* runs without suspending.  Its three ends: _should_include_tool (or the
\* report of an excluded tool) raises; self._check_tools_filters (inherited,
\* not part of this module) raises; the registration loop runs, where
\* raising is the set of positions of final_filtered_tools whose
\* get_entrypoint_for_tool / Function raises.
CatalogueReturned(c, catalogue) ==
    /\ pc[c] = "list_tools"
    /\ \E f \in {FilterCatalogue(catalogue, 1, custom_filter, annotation_filters,
                     NothingFiltered)} :
       \E final \in {NameFilter(f.tools, 1, include_tools, exclude_tools, <<>>)} :
       \E before \in {HeaderMessage(debug_filtering, custom_filter, annotation_filters,
                                    "filtering_by") \cup f.messages} :
       \E after \in {before \cup HeaderMessage(debug_filtering, custom_filter,
                                               annotation_filters, "annotation_count")} :
              /\ available_tools' = catalogue
              /\ fetched' = [fetched EXCEPT ![c] = [fetched |-> TRUE, tools |-> catalogue]]
              /\ decisions' = f.decisions
              /\ annotation_filtered_tools' = f.tools
              /\ \/ /\ f.raised
                    /\ Raise(c, "rule_evaluation")
                    /\ logged' = Log(before \cup {"failed"})
                    /\ final_filtered_tools' = <<>>
                    /\ registered' = <<>>
                    /\ build_failed' = {}
                    /\ UNCHANGED <<initialized, functions>>
                 \/ /\ ~f.raised
                    /\ Raise(c, "check_tools_filters")
                    /\ logged' = Log(after \cup {"failed"})
                    /\ final_filtered_tools' = <<>>
                    /\ registered' = <<>>
                    /\ build_failed' = {}
                    /\ UNCHANGED <<initialized, functions>>
                 \/ /\ ~f.raised
                    /\ \E raising \in SUBSET (1..Len(final)) :
                       \E reg \in {RegisterTools(final, 1, raising,
                                       [functions |-> functions, registered |-> <<>>,
                                        failed |-> {}, aborted |-> FALSE])} :
                              /\ final_filtered_tools' = final
                              /\ registered' = reg.registered
                              /\ build_failed' = reg.failed
                              /\ functions' = reg.functions
                              /\ IF reg.aborted
                                 THEN /\ Raise(c, "register")
                                      /\ logged' = Log(after \cup {"final_count", "failed"}
                                                          \cup RegisterMessages(reg))
                                      /\ UNCHANGED initialized
                                 ELSE /\ initialized' = InitializedAfterPass
                                      /\ pc' = [pc EXCEPT ![c] = "idle"]
                                      /\ last_result' = "ready"
                                      /\ logged' = Log(after \cup {"final_count", "initialized"}
                                                          \cup RegisterMessages(reg))
                                      /\ UNCHANGED failed_once
    /\ UNCHANGED <<config_vars, functions_at_entry, probe_vars, invoke_vars, construct_vars,
                   manager_vars>>

\* The server returns any catalogue of the pool.
ListToolsReturns(c) == \E catalogue \in Catalogues : CatalogueReturned(c, catalogue)

(***************************************************************************)
(* One instance, its initialize() calls made one after the other.          *)
(***************************************************************************)
NoProbe == [done |-> FALSE]

\* debug_filtering: bool = False, and no message logged yet.
NothingLogged ==
    /\ debug_filtering = FALSE
    /\ logged = {}

\* No initialize() call has got a catalogue.
NothingFetched == fetched = [c \in Calls |-> NoSnapshot]

\* No AgentConfigManager has been made.
NotLoaded == [loaded |-> FALSE]
NoCalls == <<>>
NoManager ==
    /\ agent_config = NotLoaded
    /\ config_calls = NoCalls

\* The invocations of registered actions (the fields are described with
\* coercing_entrypoint below).
Invocations == {"i1", "i2"}
Remote(kind, produced, value, exhausted) ==
    [kind |-> kind, produced |-> produced, value |-> value, exhausted |-> exhausted]
NoRemote == Remote("", <<>>, PyNone, FALSE)
Invocation(pc_, name, agent, kwargs, calls, items, remote_error, result, error, remote) ==
    [pc |-> pc_, name |-> name, agent |-> agent, kwargs |-> kwargs, calls |-> calls,
     items |-> items, remote_error |-> remote_error, result |-> result, error |-> error,
     remote |-> remote]
NoInvocation == Invocation("idle", "", PyNone, NoParams, <<>>, <<>>, "", PyNone, "", NoRemote)

InitInstance ==
    /\ initialized = FALSE
    /\ functions = <<>>
    /\ pc = [c \in Calls |-> "idle"]
    /\ functions_at_entry = <<>>
    /\ last_result = "none"
    /\ failed_once = FALSE
    /\ NoLocals

Init ==
    /\ annotation_filters \in FilterConfigs
    /\ custom_filter \in CustomFilters
    /\ include_tools \in IncludeConfigs
    /\ exclude_tools \in ExcludeConfigs
    /\ session \in BOOLEAN
    /\ InitInstance
    /\ match_probe = NoProbe
    /\ include_probe = NoProbe
    /\ coerce_probe = NoProbe
    /\ invocations = [i \in Invocations |-> NoInvocation]
    /\ construction = ConstructedFrom(annotation_filters)
    /\ NothingLogged
    /\ NothingFetched
    /\ NoManager

NoOtherCall(c) == \A d \in Calls \ {c} : pc[d] = "idle"

Next ==
    \/ \E c \in Calls : NoOtherCall(c) /\ InitializeCall(c)
    \/ \E c \in Calls : NoOtherCall(c) /\ SessionInitializeReturns(c)
    \/ \E c \in Calls : NoOtherCall(c) /\ SessionInitializeRaises(c)
    \/ \E c \in Calls : NoOtherCall(c) /\ ListToolsRaises(c)
    \/ \E c \in Calls : NoOtherCall(c) /\ ListToolsReturns(c)

Spec == Init /\ [][Next]_vars

(***************************************************************************)
(* The filter functions on their own: an instance with any filter          *)
(* configuration, _annotation_value_matches_filter and                     *)
(* _should_include_tool called once on any value, rule and tool.           *)
(***************************************************************************)
ProbeAnnotationValues ==
    { PyNone, PyTrue, PyFalse, PyInt(0), PyInt(1), PyInt(2),
      PyStr(""), PyStr("a"), PyStr("b"), PyStr("System Status"), PyStr(LongTitle),
      PyList(<<>>),
      PyList(<<EStr("a")>>),
      PyList(<<EStr("b"), EStr("c")>>),
      PyList(<<EStr("c"), EStr("d")>>),
      PyList(<<Elem("int", "", 1)>>),
      PyList(<<ENested("a"), EStr("b")>>) }

ProbeRules ==
    { PyNone, PyTrue, PyFalse, PyInt(1), PyStr("a"),
      PyList(<<>>),
      PyList(<<EStr("a"), EStr("b")>>),
      PyList(<<EStr("b")>>),
      PyList(<<Elem("bool", "", 1), Elem("none", "", 0)>>),
      PyList(<<ENested("a"), EStr("b")>>),
      PyCallable("title_mentions_system"),
      PyCallable("title_is_short"),
      PyCallable("is_absent"),
      PyCallable("not_defined") }

ProbeAnnotations ==
    LET toolsets == { PyList(<<EStr("a")>>), PyList(<<EStr("b"), EStr("c")>>),
                      PyList(<<EStr("c"), EStr("d")>>), PyStr("a"),
                      PyList(<<ENested("a"), EStr("b")>>) }
        hints == { PyTrue, PyFalse, PyInt(1) }
        titles == { PyStr("System Status"), PyStr("disk") }
        values(k) == CASE k = "toolsets" -> toolsets
                       [] k = "readOnlyHint" -> hints
                       [] OTHER -> titles
    IN  UNION { { a \in [keys -> toolsets \cup hints \cup titles] :
                     \A k \in keys : a[k] \in values(k) } :
                keys \in SUBSET {"toolsets", "readOnlyHint", "title"} }

ProbeTools ==
    { Tool(name, "probed", EmptySchema, TRUE, a) :
         name \in {"x", "y"}, a \in ProbeAnnotations }
        \cup { Tool("x", "probed", EmptySchema, FALSE, NoKeys) }

KeyRulePairs ==
    { <<"toolsets", PyList(<<EStr("a"), EStr("b")>>)>>,
      <<"toolsets", PyList(<<EStr("nonexistent")>>)>>,
      <<"toolsets", PyStr("a")>>,
      <<"readOnlyHint", PyTrue>>,
      <<"readOnlyHint", PyFalse>>,
      <<"title", PyCallable("title_mentions_system")>>,
      <<"title", PyCallable("title_is_short")>>,
      <<"title", PyCallable("is_absent")>> }

\* A dict holds a key once.
ProbeFilterSpecs ==
    { af \in UNION { [1..n -> KeyRulePairs] : n \in 0..MaxRules } :
         \A i, j \in 1..Len(af) : i # j => af[i][1] # af[j][1] }

ProbeMatch ==
    /\ ~match_probe.done /\ ~include_probe.done
    /\ \E annotation_value \in ProbeAnnotationValues, filter_value \in ProbeRules :
          match_probe' =
             [done |-> TRUE,
              annotation_value |-> annotation_value,
              filter_value |-> filter_value,
              result |-> AnnotationValueMatchesFilter(annotation_value, filter_value)]
    /\ UNCHANGED <<include_probe, coerce_probe, config_vars, instance_vars, pass_vars,
                   invoke_vars, construct_vars,
                   log_vars, snapshot_vars, manager_vars>>

ProbeShouldInclude ==
    /\ construction.state = "constructed"
    /\ ~match_probe.done /\ ~include_probe.done
    /\ \E tool \in ProbeTools :
          /\ include_probe' =
             [done |-> TRUE,
              tool |-> tool,
              decision |-> ShouldIncludeTool(tool, custom_filter, annotation_filters)]
          /\ logged' = Log(DecisionMessages(tool, custom_filter,
                              ShouldIncludeTool(tool, custom_filter, annotation_filters)))
    /\ UNCHANGED <<match_probe, coerce_probe, config_vars, instance_vars, pass_vars,
                   invoke_vars, construct_vars, snapshot_vars, manager_vars>>

InitFilter ==
    /\ annotation_filters \in ProbeFilterSpecs
    /\ custom_filter \in CustomFilters
    /\ include_tools = Opt(TRUE, {})
    /\ exclude_tools = Opt(TRUE, {})
    /\ session = TRUE
    /\ InitInstance
    /\ match_probe = NoProbe
    /\ include_probe = NoProbe
    /\ coerce_probe = NoProbe
    /\ invocations = [i \in Invocations |-> NoInvocation]
    /\ construction = ConstructedFrom(annotation_filters)
    /\ NothingLogged
    /\ NothingFetched
    /\ NoManager

NextFilter == ProbeMatch \/ ProbeShouldInclude

SpecFilter == InitFilter /\ [][NextFilter]_vars

(***************************************************************************)
(* _coerce_parameters on its own: called once on any of the mappings and   *)
(* schemas below.  The caller supplies p, q, both or neither; the schema   *)
(* declares p with some type or not at all, r always, q never.             *)
(***************************************************************************)
ProbeValues ==
    { PyNone, PyTrue, PyFalse, PyInt(0), PyInt(42), PyFloat(0), PyFloat(45),
      PyStr(""), PyStr("42"), PyStr(" -7 "), PyStr("4.5"), PyStr("1e3"), PyStr("abc"),
      PyStr("YES"), PyStr("yes"), PyStr("tRuE"), PyStr("1"), PyStr("0"),
      PyStr("no"), PyStr("maybe"), PyStr(" true"), PyStr("ab"),
      PyList(<<>>), PyList(<<EStr("a")>>), PyList(<<EStr("ab")>>),
      PyDict(<<>>), PyDict(<<EStr("k")>>) }

PropTypes == {"integer", "number", "boolean", "string", "array", "object", "", "null"}

ProbeSchemas ==
    { Schema(TRUE, FALSE, NoProperties), EmptySchema, SchemaOf(NoProperties),
      SchemaOf([r |-> "integer"]) }
        \cup { SchemaOf([p |-> type, r |-> "integer"]) : type \in PropTypes }

ProbeParams ==
    UNION { [names -> ProbeValues] : names \in SUBSET {"p"} }
        \cup UNION { { [p |-> v, q |-> w] : v \in ProbeValues, w \in {PyNone, PyStr("42")} },
                     { [q |-> w] : w \in {PyNone, PyStr("42")} } }

ProbeCoerce ==
    /\ ~coerce_probe.done
    /\ \E params \in ProbeParams, schema \in ProbeSchemas :
       \E coerced \in {CoerceParameters(params, schema)} :
          /\ coerce_probe' =
                [done |-> TRUE,
                 params |-> params,
                 schema |-> schema,
                 result |-> coerced]
          /\ logged' = Log(coerced.messages)
    /\ UNCHANGED <<match_probe, include_probe, config_vars, instance_vars, pass_vars,
                   invoke_vars, construct_vars, snapshot_vars, manager_vars>>

InitCoerce ==
    /\ annotation_filters = <<>>
    /\ custom_filter = ""
    /\ include_tools = Opt(TRUE, {})
    /\ exclude_tools = Opt(TRUE, {})
    /\ session = TRUE
    /\ InitInstance
    /\ match_probe = NoProbe
    /\ include_probe = NoProbe
    /\ coerce_probe = NoProbe
    /\ invocations = [i \in Invocations |-> NoInvocation]
    /\ construction = ConstructedFrom(annotation_filters)
    /\ NothingLogged
    /\ NothingFetched
    /\ NoManager

\* The caller passes the mapping _coerce_parameters returned through
\* _coerce_parameters again, under the same schema.
ProbeCoerceAgain ==
    /\ coerce_probe.done
    /\ "again" \notin DOMAIN coerce_probe
    /\ coerce_probe.result.error = ""
    /\ \E coerced \in {CoerceParameters(coerce_probe.result.params, coerce_probe.schema)} :
          /\ coerce_probe' =
                [done |-> TRUE,
                 params |-> coerce_probe.params,
                 schema |-> coerce_probe.schema,
                 result |-> coerce_probe.result,
                 again |-> coerced]
          /\ logged' = Log(coerced.messages)
    /\ UNCHANGED <<match_probe, include_probe, config_vars, instance_vars, pass_vars,
                   invoke_vars, construct_vars, snapshot_vars, manager_vars>>

NextCoerce == ProbeCoerce \/ ProbeCoerceAgain

SpecCoerce == InitCoerce /\ [][NextCoerce]_vars

(***************************************************************************)
(* coercing_entrypoint(agent=None, **kwargs), one action per stretch       *)
(* between two suspend points.  An invocation:                             *)
(*   pc            "idle", "await_result", "async_for", "returned",        *)
(*                 "raised"                                                *)
(*   name          the registered action that was called                   *)
(*   agent, kwargs its arguments                                           *)
(*   calls         the calls of original_fn it made, [tool, arguments]     *)
(*   items         the items collected from an async generator             *)
(*   remote_error  the exception the remote call raised, "" for none       *)
(*   result, error what the caller gets: the value returned, the exception *)
(*                 raised ("" for none)                                    *)
(***************************************************************************)
Agents == {PyNone, PyObject("agent_a")}
ResultKinds == {"coroutine", "async_generator"}
RemoteErrors == {"ToolError", "TimeoutError"}
RemoteResult(name) == PyStr("result of " \o name)
Item(k) == Elem("int", "", k)

InvokeKwargs ==
    { NoParams,
      [n |-> PyStr("42"), r |-> PyStr("4.5")],
      [n |-> PyStr("abc"), r |-> PyStr("abc")],
      [n |-> PyInt(42), r |-> PyFloat(45)],
      [n |-> PyStr("4.5"), r |-> PyStr("1e3")],
      [n |-> PyNone, q |-> PyStr("42")] }

\* The agent is handed on to the remote call with the arguments.
ForwardedArguments_with_agent(agent, coerced_kwargs) ==
    IF agent.t = "none" THEN coerced_kwargs
    ELSE [key \in DOMAIN coerced_kwargs \cup {"agent"} |->
             IF key = "agent" THEN agent ELSE coerced_kwargs[key]]

\* result = original_fn(**coerced_kwargs)
ForwardedArguments(agent, coerced_kwargs) == coerced_kwargs

\* The exception is caught and its text returned as the result.
RemoteFailure_masked(invocation, error) ==
    [invocation EXCEPT !.pc = "returned", !.remote_error = error,
                       !.result = PyStr(error), !.items = <<>>]

\* An exception of "await result" or of "async for item in result" is not
\* caught: it leaves coercing_entrypoint, the items collected are lost.
RemoteFailure(invocation, error) ==
    [invocation EXCEPT !.pc = "raised", !.remote_error = error,
                       !.error = error, !.items = <<>>]

\* The call up to its first suspend point: coercion, the call of
\* original_fn, then "await result" or the first turn of "async for".
EntrypointCall(i) ==
    /\ invocations[i].pc = "idle"
    /\ \E name \in DOMAIN functions, agent \in Agents, kwargs \in InvokeKwargs,
          kind \in ResultKinds :
       \E coerced \in {CoerceParameters(kwargs, functions[name].entrypoint.schema)} :
          /\ invocations' = [invocations EXCEPT ![i] =
                IF coerced.error # ""
                THEN Invocation("raised", name, agent, kwargs, <<>>, <<>>, "",
                                PyNone, coerced.error, NoRemote)
                ELSE Invocation(IF kind = "coroutine" THEN "await_result" ELSE "async_for",
                                name, agent, kwargs,
                                <<[tool |-> functions[name].entrypoint.original_fn,
                                   arguments |-> ForwardedArguments(agent, coerced.params)]>>,
                                <<>>, "", PyNone, "", Remote(kind, <<>>, PyNone, FALSE))]
          /\ logged' = Log(coerced.messages)
    /\ UNCHANGED <<config_vars, instance_vars, pass_vars, probe_vars, construct_vars,
                   snapshot_vars, manager_vars>>

\* return await result: the coroutine's value is the invocation's result.
RemoteCallReturns(i) ==
    /\ invocations[i].pc = "await_result"
    /\ \E value \in {RemoteResult(invocations[i].name)} :
          invocations' = [invocations EXCEPT ![i].pc = "returned",
                                             ![i].remote.value = value,
                                             ![i].remote.exhausted = TRUE,
                                             ![i].result = value]
    /\ UNCHANGED <<config_vars, instance_vars, pass_vars, probe_vars, construct_vars,
                   log_vars, snapshot_vars, manager_vars>>

RemoteCallRaises(i) ==
    /\ invocations[i].pc = "await_result"
    /\ \E error \in RemoteErrors :
          invocations' = [invocations EXCEPT ![i] = RemoteFailure(@, error)]
    /\ UNCHANGED <<config_vars, instance_vars, pass_vars, probe_vars, construct_vars,
                   log_vars, snapshot_vars, manager_vars>>

\* Only the item got last is kept.
Collect_keeps_last(results, item) == <<item>>

\* results.append(item)
Collect(results, item) == Append(results, item)

\* async for item in result: the generator yields its next item.
StreamYields(i) ==
    /\ invocations[i].pc = "async_for"
    /\ Len(invocations[i].remote.produced) < MaxItems
    /\ \E item \in {Item(Len(invocations[i].remote.produced) + 1)} :
          invocations' = [invocations EXCEPT ![i].remote.produced = Append(@, item),
                                             ![i].items = Collect(@, item)]
    /\ UNCHANGED <<config_vars, instance_vars, pass_vars, probe_vars, construct_vars,
                   log_vars, snapshot_vars, manager_vars>>

\* The generator is exhausted: return results
StreamEnds(i) ==
    /\ invocations[i].pc = "async_for"
    /\ invocations' = [invocations EXCEPT ![i].pc = "returned",
                                          ![i].remote.exhausted = TRUE,
                                          ![i].result = PyList(invocations[i].items)]
    /\ UNCHANGED <<config_vars, instance_vars, pass_vars, probe_vars, construct_vars,
                   log_vars, snapshot_vars, manager_vars>>

StreamRaises(i) ==
    /\ invocations[i].pc = "async_for"
    /\ \E error \in RemoteErrors :
          invocations' = [invocations EXCEPT ![i] = RemoteFailure(@, error)]
    /\ UNCHANGED <<config_vars, instance_vars, pass_vars, probe_vars, construct_vars,
                   log_vars, snapshot_vars, manager_vars>>

(***************************************************************************)
(* A Ready instance and the invocations of its actions: the instance was   *)
(* constructed without filters and initialize() has registered the         *)
(* catalogue [x, z].  Invocations interleave at their suspend points.      *)
(***************************************************************************)
InvokedCatalogue == <<ToolX, ToolPlain>>

InitInvoke ==
    /\ annotation_filters = <<>>
    /\ custom_filter = ""
    /\ include_tools = Opt(TRUE, {})
    /\ exclude_tools = Opt(TRUE, {})
    /\ session = TRUE
    /\ initialized = InitializedAfterPass
    /\ functions = RegisterTools(InvokedCatalogue, 1, {},
                                 [functions |-> <<>>, registered |-> <<>>,
                                  failed |-> {}, aborted |-> FALSE]).functions
    /\ pc = [c \in Calls |-> "idle"]
    /\ functions_at_entry = <<>>
    /\ last_result = "ready"
    /\ failed_once = FALSE
    /\ available_tools = InvokedCatalogue
    /\ decisions = FilterCatalogue(InvokedCatalogue, 1, custom_filter, annotation_filters,
                                   NothingFiltered).decisions
    /\ annotation_filtered_tools = InvokedCatalogue
    /\ final_filtered_tools = InvokedCatalogue
    /\ registered = InvokedCatalogue
    /\ build_failed = {}
    /\ match_probe = NoProbe
    /\ include_probe = NoProbe
    /\ coerce_probe = NoProbe
    /\ invocations = [i \in Invocations |-> NoInvocation]
    /\ construction = ConstructedFrom(annotation_filters)
    /\ NothingLogged
    /\ NothingFetched
    /\ NoManager

NextInvoke ==
    \/ \E i \in Invocations : EntrypointCall(i)
    \/ \E i \in Invocations : RemoteCallReturns(i)
    \/ \E i \in Invocations : RemoteCallRaises(i)
    \/ \E i \in Invocations : StreamYields(i)
    \/ \E i \in Invocations : StreamEnds(i)
    \/ \E i \in Invocations : StreamRaises(i)

SpecInvoke == InitInvoke /\ [][NextInvoke]_vars

(***************************************************************************)
(* __init__ on its own: the constructor called once with any of the        *)
(* arguments below (include_tools and exclude_tools left None), then       *)
(* _should_include_tool called once on any tool.                           *)
(***************************************************************************)
ToolsetsArgs ==
    { PyNone, PyStr("a"), PyStr(""), PyList(<<>>),
      PyList(<<EStr("a"), EStr("b")>>), PyList(<<EStr("c")>>) }

FiltersArgs ==
    { FiltersArg(TRUE, <<>>), FiltersArg(FALSE, <<>>),
      FiltersArg(FALSE, << <<"toolsets", PyList(<<EStr("a"), EStr("b")>>)>> >>),
      FiltersArg(FALSE, << <<"readOnlyHint", PyTrue>> >>) }

Construct ==
    /\ construction.state = "new"
    /\ \E toolsets \in ToolsetsArgs, filters \in FiltersArgs,
          filter_func \in CustomFilters, given_session \in BOOLEAN :
          IF ConflictingForms(toolsets, filters)
          THEN /\ construction' = Construction("raised", toolsets, filters, FALSE, FALSE)
               /\ UNCHANGED config_vars
          ELSE /\ annotation_filters' = StoredFilters(toolsets, filters)
               /\ custom_filter' = filter_func
               /\ session' = given_session
               /\ UNCHANGED <<include_tools, exclude_tools, debug_filtering>>
               /\ construction' = Construction("constructed", toolsets, filters, TRUE, TRUE)
    /\ UNCHANGED <<instance_vars, pass_vars, probe_vars, invoke_vars,
                   log_vars, snapshot_vars, manager_vars>>

\* Before the call the instance has no attribute: the variables hold what
\* a call without arguments would store.
InitConstruct ==
    /\ annotation_filters = <<>>
    /\ custom_filter = ""
    /\ include_tools = Opt(TRUE, {})
    /\ exclude_tools = Opt(TRUE, {})
    /\ session = FALSE
    /\ InitInstance
    /\ match_probe = NoProbe
    /\ include_probe = NoProbe
    /\ coerce_probe = NoProbe
    /\ invocations = [i \in Invocations |-> NoInvocation]
    /\ construction = NotConstructed
    /\ NothingLogged
    /\ NothingFetched
    /\ NoManager

NextConstruct == Construct \/ ProbeShouldInclude

SpecConstruct == InitConstruct /\ [][NextConstruct]_vars

(***************************************************************************)
(* Two initialize() calls on one instance.  initialize() takes no lock:    *)
(* a second call may start while the first is suspended in                 *)
(* session.initialize() or session.list_tools(), and the server may answer *)
(* the two list_tools() requests with different catalogues.  From the      *)
(* return of list_tools() to the end of initialize() there is no suspend   *)
(* point, so that part of a call is one step.                              *)
(***************************************************************************)
RacingCalls == {"c1", "c2"}

RacePool == {ToolX, ToolZ, ToolPlain}

RaceCatalogues == UNION {[1..n -> RacePool] : n \in 0..(MaxTools - 1)}

InitRace ==
    /\ annotation_filters \in FilterConfigs
    /\ custom_filter = ""
    /\ include_tools = Opt(TRUE, {})
    /\ exclude_tools = Opt(TRUE, {})
    /\ session = TRUE
    /\ initialized = FALSE
    /\ functions = <<>>
    /\ pc = [c \in RacingCalls |-> "idle"]
    /\ functions_at_entry = <<>>
    /\ last_result = "none"
    /\ failed_once = FALSE
    /\ NoLocals
    /\ match_probe = NoProbe
    /\ include_probe = NoProbe
    /\ coerce_probe = NoProbe
    /\ invocations = [i \in Invocations |-> NoInvocation]
    /\ construction = ConstructedFrom(annotation_filters)
    /\ NothingLogged
    /\ fetched = [c \in RacingCalls |-> NoSnapshot]
    /\ NoManager

NextRace ==
    \/ \E c \in RacingCalls : InitializeCall(c)
    \/ \E c \in RacingCalls : SessionInitializeReturns(c)
    \/ \E c \in RacingCalls : SessionInitializeRaises(c)
    \/ \E c \in RacingCalls : ListToolsRaises(c)
    \/ \E c \in RacingCalls, catalogue \in RaceCatalogues : CatalogueReturned(c, catalogue)

SpecRace == InitRace /\ [][NextRace]_vars

(***************************************************************************)
(* AgentConfigManager (src/infra/config_manager.py) and apply_agent_config *)
(* (src/infra/config_helper.py).  The loaded configuration:                *)
(*   agents_none    self.agent_config.agents is None                       *)
(*   default_model  agents.default_model, None or a str                    *)
(*   extra          agents.model_extra: the keys of the agents section     *)
(*                  other than default_model, each with its entry          *)
(* An entry is what the file holds under an agent id: null, a str, or a    *)
(* mapping (fields: the keys it has among model, debug_mode,               *)
(* enable_reasoning, each None, a bool or a str).                          *)
(***************************************************************************)
\* AgentID.all_ids()
AllIds == {"ibmi-performance-monitor", "ibmi-sysadmin-discovery",
           "ibmi-sysadmin-browse", "ibmi-sysadmin-search"}
FallbackModel == "openai:gpt-4o"

Entry(kind, text, fields) == [kind |-> kind, text |-> text, fields |-> fields]
NullEntry == Entry("null", "", NoKeys)
StrEntry(text) == Entry("str", text, NoKeys)
DictEntry(fields) == Entry("dict", "", fields)

\* bool(agent_data)
EntryIsTruthy(entry) ==
    CASE entry.kind = "null" -> FALSE
      [] entry.kind = "str" -> entry.text # ""
      [] OTHER -> DOMAIN entry.fields # {}

LoadedConfig(agents_none, default_model, extra) ==
    [loaded |-> TRUE, agents_none |-> agents_none, default_model |-> default_model,
     extra |-> extra]

\* agent_config_dict.get(agent_id)
ExtraGet(cfg, agent_id) ==
    IF agent_id \in DOMAIN cfg.extra THEN cfg.extra[agent_id] ELSE NullEntry

\* agent_data.get("model")
FieldGet(entry, field) ==
    IF field \in DOMAIN entry.fields THEN entry.fields[field] ELSE PyNone

Outcome(error, value) == [error |-> error, value |-> value]

\* get_agent_model
GetAgentModel(cfg, agent_id) ==
    IF agent_id \notin AllIds
    THEN Outcome("ValueError", PyNone)
    ELSE IF cfg.agents_none
    THEN Outcome("", PyStr(FallbackModel))
    ELSE LET agent_data == ExtraGet(cfg, agent_id)
         IN  IF /\ EntryIsTruthy(agent_data) /\ agent_data.kind = "dict"
                /\ Truthy(FieldGet(agent_data, "model"))
             THEN Outcome("", FieldGet(agent_data, "model"))
             ELSE Outcome("", IF Truthy(cfg.default_model) THEN cfg.default_model
                              ELSE PyStr(FallbackModel))

\* class AgentModelConfig: model = None, enable_reasoning = True,
\* debug_mode = False unless given.
AgentModelConfig(model, enable_reasoning, debug_mode) ==
    [model |-> model, enable_reasoning |-> enable_reasoning, debug_mode |-> debug_mode]
DefaultAgentModelConfig == AgentModelConfig(PyNone, PyTrue, PyFalse)

\* A field the mapping lacks takes the default of the class.
FieldOrDefault(entry, field, default) ==
    IF field \in DOMAIN entry.fields THEN entry.fields[field] ELSE default

\* AgentModelConfig.model_validate(agent_data): ValidationError (a
\* ValueError) for data that is not a mapping.
ModelValidate(agent_data) ==
    IF agent_data.kind # "dict"
    THEN Outcome("ValidationError", DefaultAgentModelConfig)
    ELSE Outcome("", AgentModelConfig(
                        FieldOrDefault(agent_data, "model", PyNone),
                        FieldOrDefault(agent_data, "enable_reasoning", PyTrue),
                        FieldOrDefault(agent_data, "debug_mode", PyFalse)))

\* get_agent_config
GetAgentConfig(cfg, agent_id) ==
    IF agent_id \notin AllIds
    THEN Outcome("ValueError", DefaultAgentModelConfig)
    ELSE IF cfg.agents_none
    THEN Outcome("", DefaultAgentModelConfig)
    ELSE LET agent_data == ExtraGet(cfg, agent_id)
             validated == ModelValidate(agent_data)
         IN  IF ~EntryIsTruthy(agent_data)
             THEN Outcome("", DefaultAgentModelConfig)
             ELSE IF validated.error # ""
             THEN validated
             ELSE IF ~Truthy(validated.value.model) /\ Truthy(cfg.default_model)
             THEN Outcome("", [validated.value EXCEPT !.model = cfg.default_model])
             ELSE validated

\* apply_agent_config; config_manager is None or the manager whose loaded
\* configuration is cfg.  The value is <<model, debug_mode, enable_reasoning>>.
ApplyAgentConfig(agent_id, config_manager, cfg, model, debug_mode, enable_reasoning) ==
    IF config_manager = "None"
    THEN Outcome("", <<model, debug_mode, enable_reasoning>>)
    ELSE LET got == GetAgentConfig(cfg, agent_id)
             agent_config_ == got.value
         IN  IF got.error # ""
             THEN Outcome(got.error, <<>>)
             ELSE Outcome("",
                    << IF Truthy(agent_config_.model) THEN agent_config_.model ELSE model,
                       IF agent_config_.debug_mode # PyNone
                       THEN agent_config_.debug_mode ELSE debug_mode,
                       IF agent_config_.enable_reasoning # PyNone
                       THEN agent_config_.enable_reasoning ELSE enable_reasoning >>)

(***************************************************************************)
(* The configurations a file can hold under agents:, and the calls.        *)
(***************************************************************************)
Entries ==
    { NullEntry, DictEntry(NoKeys), StrEntry("watsonx:llama"),
      DictEntry([model |-> PyStr("watsonx:llama")]),
      DictEntry([model |-> PyStr("watsonx:llama"), debug_mode |-> PyTrue,
                 enable_reasoning |-> PyFalse]),
      DictEntry([debug_mode |-> PyTrue]),
      DictEntry([enable_reasoning |-> PyFalse]),
      DictEntry([model |-> PyNone, debug_mode |-> PyNone, enable_reasoning |-> PyNone]),
      DictEntry([model |-> PyStr("")]) }

DefaultModels == {PyNone, PyStr(""), PyStr(FallbackModel), PyStr("watsonx:granite")}

Extras ==
    { [k \in {} |-> NullEntry] }
      \cup { [k \in {"ibmi-performance-monitor"} |-> e] : e \in Entries }
      \cup { [k \in {"ibmi-performance-monitor", "ibmi-sysadmin-browse"} |->
                IF k = "ibmi-performance-monitor" THEN e
                ELSE DictEntry([model |-> PyStr("ollama:llama3")])] : e \in Entries }

Configs ==
    { LoadedConfig(TRUE, PyNone, [k \in {} |-> NullEntry]) }
      \cup { LoadedConfig(FALSE, d, x) : d \in DefaultModels, x \in Extras }

ConfigCall(op, agent_id, arguments, result) ==
    [op |-> op, agent_id |-> agent_id, arguments |-> arguments, result |-> result]

\* reload_config: self.agent_config = self.load_config()
ReloadConfig ==
    /\ agent_config.loaded
    /\ agent_config' \in Configs
    /\ config_calls' = NoCalls
    /\ UNCHANGED <<config_vars, instance_vars, pass_vars, probe_vars, invoke_vars,
                   construct_vars, log_vars, snapshot_vars>>

CallGetAgentModel ==
    /\ agent_config.loaded
    /\ \E agent_id \in AllIds \cup {"web-search-agent"} :
          config_calls' = <<ConfigCall("get_agent_model", agent_id, <<>>,
                                       GetAgentModel(agent_config, agent_id))>>
    /\ UNCHANGED <<agent_config, config_vars, instance_vars, pass_vars, probe_vars,
                   invoke_vars, construct_vars, log_vars, snapshot_vars>>

CallGetAgentConfig ==
    /\ agent_config.loaded
    /\ \E agent_id \in AllIds \cup {"web-search-agent"} :
          config_calls' = <<ConfigCall("get_agent_config", agent_id, <<>>,
                                       GetAgentConfig(agent_config, agent_id))>>
    /\ UNCHANGED <<agent_config, config_vars, instance_vars, pass_vars, probe_vars,
                   invoke_vars, construct_vars, log_vars, snapshot_vars>>

CallApplyAgentConfig ==
    /\ agent_config.loaded
    /\ \E agent_id \in AllIds, config_manager \in {"None", "manager"},
          model \in {PyStr(FallbackModel), PyStr("caller:model")},
          debug_mode \in {PyTrue, PyFalse}, enable_reasoning \in {PyTrue, PyFalse} :
          config_calls' =
             <<ConfigCall("apply_agent_config", agent_id,
                          <<config_manager, model, debug_mode, enable_reasoning>>,
                          ApplyAgentConfig(agent_id, config_manager, agent_config,
                                           model, debug_mode, enable_reasoning))>>
    /\ UNCHANGED <<agent_config, config_vars, instance_vars, pass_vars, probe_vars,
                   invoke_vars, construct_vars, log_vars, snapshot_vars>>

\* AgentConfigManager(): the file is loaded by the constructor.
InitConfig ==
    /\ annotation_filters = <<>>
    /\ custom_filter = ""
    /\ include_tools = Opt(TRUE, {})
    /\ exclude_tools = Opt(TRUE, {})
    /\ session = FALSE
    /\ InitInstance
    /\ match_probe = NoProbe
    /\ include_probe = NoProbe
    /\ coerce_probe = NoProbe
    /\ invocations = [i \in Invocations |-> NoInvocation]
    /\ construction = NotConstructed
    /\ NothingLogged
    /\ NothingFetched
    /\ agent_config \in Configs
    /\ config_calls = NoCalls

NextConfig ==
    \/ ReloadConfig
    \/ CallGetAgentModel
    \/ CallGetAgentConfig
    \/ CallApplyAgentConfig

SpecConfig == InitConfig /\ [][NextConfig]_vars

(***************************************************************************)
(* Instances with and without debug_filtering: one initialize() call at a  *)
(* time on a catalogue of up to MaxTools - 1 tools, then invocations of    *)
(* the registered actions.                                                 *)
(***************************************************************************)
DebugPool == {ToolX, ToolPlain, ToolNested}
DebugCatalogues == UNION {[1..n -> DebugPool] : n \in 0..(MaxTools - 1)}

InitDebug ==
    /\ annotation_filters \in FilterConfigs
    /\ custom_filter \in {"", "in_toolset_b"}
    /\ include_tools = Opt(TRUE, {})
    /\ exclude_tools = Opt(TRUE, {})
    /\ session = TRUE
    /\ InitInstance
    /\ match_probe = NoProbe
    /\ include_probe = NoProbe
    /\ coerce_probe = NoProbe
    /\ invocations = [i \in Invocations |-> NoInvocation]
    /\ construction = ConstructedFrom(annotation_filters)
    /\ debug_filtering \in BOOLEAN
    /\ logged = {}
    /\ NothingFetched
    /\ NoManager

NextDebug ==
    \/ \E c \in Calls : NoOtherCall(c) /\ InitializeCall(c)
    \/ \E c \in Calls : NoOtherCall(c) /\ SessionInitializeReturns(c)
    \/ \E c \in Calls : NoOtherCall(c) /\ SessionInitializeRaises(c)
    \/ \E c \in Calls : NoOtherCall(c) /\ ListToolsRaises(c)
    \/ \E c \in Calls, catalogue \in DebugCatalogues :
          NoOtherCall(c) /\ CatalogueReturned(c, catalogue)
    \/ EntrypointCall("i1")

SpecDebug == InitDebug /\ [][NextDebug]_vars

\* What the filter specification asks of a descriptor, rule by rule.
ValueOrNone(tool, k) ==
    IF tool.has_annotations /\ k \in DOMAIN tool.annotations
    THEN tool.annotations[k]
    ELSE PyNone

PassesEveryRule(tool, af) ==
    \A i \in 1..Len(af) :
       AnnotationValueMatchesFilter(ValueOrNone(tool, af[i][1]), af[i][2]) = "True"

(***************************************************************************)
(* C1.  With no custom predicate, a descriptor is accepted by the          *)
(* annotation filter iff its annotation value (None when the descriptor    *)
(* lacks the key) passes every key/rule pair of the filter specification;  *)
(* the empty specification accepts every descriptor.                       *)
(***************************************************************************)
C1_AcceptedIffEveryRulePasses ==
    (include_probe.done /\ custom_filter = "") =>
       /\ (include_probe.decision.result = "True")
             <=> PassesEveryRule(include_probe.tool, annotation_filters)
       /\ annotation_filters = <<>> => include_probe.decision.result = "True"

\* A descriptor without the "title" key accepted under two rules, the
\* first of them run on the absent value.
C1_Witness ==
    /\ include_probe.done
    /\ custom_filter = ""
    /\ Len(annotation_filters) = 2
    /\ annotation_filters[1][1] = "title"
    /\ include_probe.tool.has_annotations
    /\ "title" \notin DOMAIN include_probe.tool.annotations
    /\ include_probe.decision.result = "True"
    /\ include_probe.decision.evaluated = <<"title", "toolsets">>

\* The matching semantics of a rule, stated on sets of equal scalars.
ListOfScalars(v) == v.t = "list" /\ \A i \in 1..Len(v.l) : Hashable(v.l[i])
InDataModel(v) == v.t \in {"none", "bool", "int", "str"} \/ ListOfScalars(v)

\* Equal Python scalars are one member of a set: True and 1 are.
SetMember(e) == IF e.t \in NumericTypes THEN Elem("int", "", e.n) ELSE e
SetOf(v) == { SetMember(v.l[i]) : i \in 1..Len(v.l) }

ClaimedMatch(a, r) ==
    CASE r.t = "callable" -> CallPredicate(r.s, a) = "True"
      [] r.t = "list" /\ a.t = "list" -> SetOf(a) \cap SetOf(r) # {}
      [] r.t = "list" /\ a.t # "list" -> SetMember(AsElem(a)) \in SetOf(r)
      [] OTHER -> PyEq(a, r)

(***************************************************************************)
(* C2.  Rule matching, on the annotation values of the data model (None,   *)
(* bool, number, string, list of scalars): a scalar rule matches iff the   *)
(* value equals it, a list rule matches a list value iff they share an     *)
(* element and any other value iff the value is in the list, a predicate   *)
(* rule matches iff the predicate is truthy on the value.  Rule            *)
(* ["a","b"] accepts ["b","c"] and rejects ["c","d"].                      *)
(***************************************************************************)
C2_RuleMatchingIsExact ==
    (/\ match_probe.done
     /\ InDataModel(match_probe.annotation_value)
     /\ match_probe.filter_value.t = "callable" \/ InDataModel(match_probe.filter_value))
    => /\ match_probe.result \in {"True", "False"}
       /\ (match_probe.result = "True")
             <=> ClaimedMatch(match_probe.annotation_value, match_probe.filter_value)
       /\ match_probe.filter_value = PyList(<<EStr("a"), EStr("b")>>)
             => /\ match_probe.annotation_value = PyList(<<EStr("b"), EStr("c")>>)
                   => match_probe.result = "True"
                /\ match_probe.annotation_value = PyList(<<EStr("c"), EStr("d")>>)
                   => match_probe.result = "False"

C2_Witness ==
    /\ match_probe.done
    /\ match_probe.filter_value = PyList(<<EStr("a"), EStr("b")>>)
    /\ match_probe.annotation_value = PyList(<<EStr("b"), EStr("c")>>)
    /\ match_probe.result = "True"

(***************************************************************************)
(* Helpers of the claims about a pass.                                     *)
(***************************************************************************)
RECURSIVE IsSubsequence(_, _)
IsSubsequence(s, t) ==
    IF s = <<>> THEN TRUE
    ELSE IF t = <<>> THEN FALSE
    ELSE IF Head(s) = Head(t) THEN IsSubsequence(Tail(s), Tail(t))
    ELSE IsSubsequence(s, Tail(t))

NamesOf(tools) == [i \in 1..Len(tools) |-> tools[i].name]
Failures == {"no_session", "session_initialize", "list_tools",
             "rule_evaluation", "check_tools_filters", "register"}
CustomRejects(tool) ==
    custom_filter # "" /\ CallCustomFilter(custom_filter, tool) # "True"

(***************************************************************************)
(* C3.  A configured custom predicate is evaluated before any annotation   *)
(* rule: when it returns false or raises on a descriptor, the descriptor   *)
(* is rejected, none of its annotation rules is evaluated and no           *)
(* exception leaves _should_include_tool, hence initialize().              *)
(***************************************************************************)
C3_CustomFilterRunsFirst ==
    \A i \in 1..Len(decisions) :
       /\ custom_filter # "" => decisions[i].custom_called
       /\ CustomRejects(available_tools[i]) =>
             /\ decisions[i].result = "False"
             /\ decisions[i].evaluated = <<>>
             /\ \A j \in 1..Len(annotation_filtered_tools) :
                   annotation_filtered_tools[j] # available_tools[i]

\* The custom predicate raised on a tool without annotations, rules were
\* configured, and the pass went on to Ready.
C3_Witness ==
    /\ last_result = "ready"
    /\ custom_filter = "in_toolset_b"
    /\ annotation_filters # <<>>
    /\ \E i \in 1..Len(available_tools) :
          /\ CallCustomFilter(custom_filter, available_tools[i]) = "raise"
          /\ decisions[i].result = "False"
    /\ functions # <<>>

(***************************************************************************)
(* C4.  A failure raised while evaluating an annotation rule is a          *)
(* non-match and is never propagated: no decision of                       *)
(* _should_include_tool is an exception and no initialize() pass aborts    *)
(* in rule evaluation.                                                     *)
(***************************************************************************)
C4_RuleFailureIsNeverPropagated ==
    /\ last_result # "rule_evaluation"
    /\ \A i \in 1..Len(decisions) : decisions[i].result # "raise"

\* The descriptors the two filters let through.
Accepted(tool) == ShouldIncludeTool(tool, custom_filter, annotation_filters).result = "True"
Kept(tool) == PassesNameFilter(tool, include_tools, exclude_tools)

(***************************************************************************)
(* C5.  The annotation-filtered list is the accepted descriptors of the    *)
(* fetched catalogue in discovery order, the final list is those of them   *)
(* the name filter keeps, in the same order, and the tools are registered  *)
(* in that order.                                                          *)
(***************************************************************************)
C5_FilteredOutputKeepsDiscoveryOrder ==
    /\ IsSubsequence(annotation_filtered_tools, available_tools)
    /\ IsSubsequence(final_filtered_tools, annotation_filtered_tools)
    /\ IsSubsequence(registered, final_filtered_tools)
    /\ last_result = "ready" =>
          /\ annotation_filtered_tools = SelectSeq(available_tools, Accepted)
          /\ final_filtered_tools = SelectSeq(annotation_filtered_tools, Kept)
          /\ Len(registered) = Len(final_filtered_tools) - Cardinality(build_failed)

\* Three different tools fetched, one rejected by the annotation filter,
\* the other two registered in discovery order.
C5_Witness ==
    /\ last_result = "ready"
    /\ Len(available_tools) = 3
    /\ Cardinality({available_tools[i] : i \in 1..3}) = 3
    /\ Len(annotation_filtered_tools) = 2
    /\ annotation_filtered_tools[1] # annotation_filtered_tools[2]
    /\ registered = annotation_filtered_tools

(***************************************************************************)
(* C6.  In the name filter the exclude-list wins over the include-list:    *)
(* no tool named in the exclude-list is kept or registered, and with an    *)
(* include-list set only tools named in it are; with include [x, y],       *)
(* exclude [y] and tools x, y, z past the annotation filter, only x is     *)
(* kept and registered.                                                    *)
(***************************************************************************)
C6_ExcludeWinsOverInclude ==
    last_result = "ready" =>
       /\ \A i \in 1..Len(final_filtered_tools) :
             /\ ~exclude_tools.none => final_filtered_tools[i].name \notin exclude_tools.names
             /\ ~include_tools.none => final_filtered_tools[i].name \in include_tools.names
       /\ \A i \in 1..Len(annotation_filtered_tools) :
             (/\ ~exclude_tools.none
              /\ ~include_tools.none
              /\ annotation_filtered_tools[i].name \in exclude_tools.names \cap include_tools.names)
             => annotation_filtered_tools[i].name \notin DOMAIN functions
       /\ (/\ include_tools = Opt(FALSE, {"x", "y"})
           /\ exclude_tools = Opt(FALSE, {"y"})
           /\ NamesOf(annotation_filtered_tools) = <<"x", "y", "z">>)
          => /\ NamesOf(final_filtered_tools) = <<"x">>
             /\ DOMAIN functions \subseteq {"x"}
             /\ build_failed = {} => DOMAIN functions = {"x"}

C6_Witness ==
    /\ last_result = "ready"
    /\ include_tools = Opt(FALSE, {"x", "y"})
    /\ exclude_tools = Opt(FALSE, {"y"})
    /\ NamesOf(annotation_filtered_tools) = <<"x", "y", "z">>
    /\ DOMAIN functions = {"x"}

(***************************************************************************)
(* C7.  initialize() on a Ready instance starts no session                 *)
(* initialization and no catalogue fetch (the call does not suspend and    *)
(* the fetched catalogue and the pass's lists stay as they were) and       *)
(* leaves the action registry unchanged.                                   *)
(***************************************************************************)
C7_InitializeWhenReadyIsNoOp ==
    [][initialized =>
          /\ initialized'
          /\ pc' = pc
          /\ functions' = functions
          /\ UNCHANGED pass_vars]_vars

\* initialize() was called on a Ready instance with a non-empty registry.
C7_Witness ==
    /\ initialized
    /\ last_result = "noop"
    /\ functions # <<>>

(***************************************************************************)
(* C8.  When an initialize() pass aborts with an error, the action         *)
(* registry is the one of the moment the pass began: no registration of    *)
(* the failed pass is visible.                                             *)
(***************************************************************************)
C8_FailedPassLeavesRegistryUntouched ==
    last_result \in Failures =>
       /\ functions = functions_at_entry
       /\ registered = <<>>
       /\ ~initialized

\* A pass that aborted after it had fetched and filtered a catalogue from
\* which tools were accepted.
C8_Witness ==
    /\ last_result \in {"rule_evaluation", "check_tools_filters"}
    /\ Len(available_tools) >= 2
    /\ Len(annotation_filtered_tools) >= 1

Lifecycle ==
    IF initialized THEN "Ready"
    ELSE IF \E c \in Calls : pc[c] # "idle" THEN "Initializing"
    ELSE IF last_result \in Failures THEN "Failed"
    ELSE IF last_result = "none" THEN "Uninitialized"
    ELSE "Unknown"

LifecycleSteps ==
    { <<"Uninitialized", "Initializing">>, <<"Uninitialized", "Failed">>,
      <<"Initializing", "Initializing">>, <<"Initializing", "Ready">>,
      <<"Initializing", "Failed">>,
      <<"Failed", "Initializing">>, <<"Failed", "Failed">>,
      <<"Ready", "Ready">> }

LifecycleStepAllowed == (<<Lifecycle, Lifecycle'>> \in LifecycleSteps)

BuiltNames == { final_filtered_tools[i].name :
                   i \in (1..Len(final_filtered_tools)) \ build_failed }

(***************************************************************************)
(* C10.  When building the action of a tool of the final filtered          *)
(* catalogue raises, that tool alone is skipped: initialize() ends in      *)
(* Ready without raising and every other tool of the final catalogue is    *)
(* registered.  Of [A, B, C] with B failing, exactly A and C are           *)
(* registered.                                                             *)
(***************************************************************************)
C10_BuildFailureSkipsOnlyThatTool ==
    build_failed # {} =>
       /\ initialized
       /\ last_result \in {"ready", "noop"}
       /\ DOMAIN functions = BuiltNames
       /\ \A i \in (1..Len(final_filtered_tools)) \ build_failed :
             functions[final_filtered_tools[i].name].name = final_filtered_tools[i].name
       /\ Len(registered) = Len(final_filtered_tools) - Cardinality(build_failed)

C10_Witness ==
    /\ last_result = "ready"
    /\ NamesOf(final_filtered_tools) = <<"x", "y", "z">>
    /\ build_failed = {2}
    /\ DOMAIN functions = {"x", "z"}
    /\ NamesOf(registered) = <<"x", "z">>

(***************************************************************************)
(* C11.  A pass in which no catalogue tool passes the filters returns      *)
(* normally: the instance is Ready and its action registry is empty.  A    *)
(* failed initialize() raises and leaves the instance not Ready, so the    *)
(* two outcomes differ both in how the call ends and in the state.         *)
(***************************************************************************)
C11_EmptyResultIsReadyNotFailure ==
    /\ last_result \in {"ready", "noop"} => initialized
    /\ last_result \in Failures => (~initialized /\ failed_once)
    /\ (last_result \in {"ready", "noop"} /\ final_filtered_tools = <<>>)
          => functions = <<>>

\* A catalogue of MaxTools tools fetched under a toolsets rule none of them
\* matches: nothing accepted, nothing registered, the instance Ready.
C11_Witness ==
    /\ last_result = "ready"
    /\ initialized
    /\ ~failed_once
    /\ annotation_filters # <<>>
    /\ Len(available_tools) = MaxTools
    /\ annotation_filtered_tools = <<>>
    /\ functions = <<>>

(***************************************************************************)
(* C12.  initialize() on an instance whose session is None raises to the   *)
(* caller before its first suspend point: no session initialization, no    *)
(* catalogue fetch, no registration, and the instance does not become      *)
(* Ready.                                                                  *)
(***************************************************************************)
C12_NoSessionFailsBeforeFetch ==
    [][(~session /\ ~initialized) =>
          /\ last_result' = "no_session"
          /\ failed_once'
          /\ pc' = pc
          /\ ~initialized'
          /\ functions' = functions
          /\ UNCHANGED pass_vars]_vars

\* A call on an instance without session has raised: nothing was fetched
\* or registered.
C12_Witness ==
    /\ ~session
    /\ last_result = "no_session"
    /\ failed_once
    /\ ~initialized
    /\ functions = <<>>
    /\ NoLocals

\* The declared type of a supplied name: "" when the schema is None, has no
\* properties, does not declare the name or declares it without a type.
DeclaredType(schema, key) ==
    IF ~schema.is_none /\ schema.has_properties /\ key \in DOMAIN schema.properties
    THEN schema.properties[key]
    ELSE ""

\* The probe coerced a non-null p declared with the type.
ProbedAs(type) ==
    /\ coerce_probe.done
    /\ "p" \in DOMAIN coerce_probe.params
    /\ coerce_probe.params["p"].t # "none"
    /\ DeclaredType(coerce_probe.schema, "p") = type

SameIgnoringCase(a, b) ==
    /\ Len(a) = Len(b)
    /\ \A i \in 1..Len(a) : LowerChar(CharAt(a, i)) = LowerChar(CharAt(b, i))

(***************************************************************************)
(* C14.  For a parameter declared boolean, a supplied string becomes true  *)
(* iff it is "true", "1" or "yes" in any letter case and false otherwise   *)
(* ("YES" -> true, "no" -> false, "maybe" -> false); a supplied non-string *)
(* value other than null becomes its truthiness.                           *)
(***************************************************************************)
C14_BooleanCoercion ==
    ProbedAs("boolean") =>
       LET value == coerce_probe.params["p"]
           out == coerce_probe.result.params["p"]
       IN  /\ coerce_probe.result.error = ""
           /\ out \in {PyTrue, PyFalse}
           /\ value.t = "str" =>
                 (out = PyTrue <=> \E word \in {"true", "1", "yes"} :
                                      SameIgnoringCase(value.s, word))
           /\ value.t # "str" => (out = PyTrue <=> Truthy(value))
           /\ value = PyStr("YES") => out = PyTrue
           /\ value \in {PyStr("no"), PyStr("maybe")} => out = PyFalse

C14_Witness ==
    /\ ProbedAs("boolean")
    /\ coerce_probe.params["p"] = PyStr("YES")
    /\ coerce_probe.result.params["p"] = PyTrue

(***************************************************************************)
(* C15.  As claimed: for a parameter declared array, every supplied        *)
(* non-null value that is not a list is coerced to a list of at least one  *)
(* element, and a list is passed through unchanged.                        *)
(***************************************************************************)
C15_ArrayValueBecomesSequence ==
    ProbedAs("array") =>
       LET value == coerce_probe.params["p"]
           out == coerce_probe.result.params["p"]
       IN  /\ coerce_probe.result.error = ""
           /\ out.t = "list"
           /\ value.t # "list" => Len(out.l) >= 1
           /\ value.t = "list" => out = value

RecognisedTypes == {"number", "integer", "boolean", "string", "array", "object"}

(***************************************************************************)
(* C16.  The coerced mapping has exactly the names the caller supplied: a  *)
(* supplied name the schema does not declare keeps its value, a declared   *)
(* name the caller did not supply is not added, and a supplied null or a   *)
(* value whose property has no or an unrecognised type is unchanged.       *)
(***************************************************************************)
C16_CoercionPreservesNames ==
    coerce_probe.done =>
       LET params == coerce_probe.params
           out == coerce_probe.result.params
       IN  /\ coerce_probe.result.error = ""
           /\ DOMAIN out = DOMAIN params
           /\ \A key \in DOMAIN params :
                 (\/ params[key].t = "none"
                  \/ DeclaredType(coerce_probe.schema, key) \notin RecognisedTypes)
                 => out[key] = params[key]

\* p is declared integer and coerced, q is not declared and kept, r is
\* declared and not supplied.
C16_Witness ==
    /\ coerce_probe.done
    /\ coerce_probe.params = [p |-> PyStr("42"), q |-> PyStr("42")]
    /\ DeclaredType(coerce_probe.schema, "p") = "integer"
    /\ DeclaredType(coerce_probe.schema, "r") = "integer"
    /\ coerce_probe.result.params = [p |-> PyInt(42), q |-> PyStr("42")]

\* The invocations that have called the action name.
Started(i) == invocations[i].pc # "idle"
CalledRemote(i) == Len(invocations[i].calls) > 0

\* What the claim asks of a value supplied for a parameter declared
\* integer or number.
NumericCoercionAsClaimed(type, value) ==
    IF value.t # "str" THEN value
    ELSE LET parsed == IF type = "integer" THEN IntOf(value.s) ELSE FloatOf(value.s)
         IN  IF parsed.error = "" THEN parsed.value ELSE value

(***************************************************************************)
(* C13.  For a parameter declared integer or number, the value forwarded   *)
(* to the remote call is the parsed number when a string that parses was   *)
(* supplied ("42" -> 42), the supplied value when it is not a string, and  *)
(* the supplied string when it does not parse ("abc" stays "abc"); in      *)
(* every case the invocation makes its remote call and raises nothing of   *)
(* its own.                                                                *)
(***************************************************************************)
C13_NumericCoercionNeverAborts ==
    \A i \in Invocations :
       (Started(i) /\ invocations[i].name = "x") =>
          LET inv == invocations[i]
              schema == functions["x"].parameters
          IN  /\ Len(inv.calls) = 1
              /\ inv.error = inv.remote_error
              /\ \A key \in DOMAIN inv.kwargs :
                    DeclaredType(schema, key) \in {"integer", "number"} =>
                       /\ key \in DOMAIN inv.calls[1].arguments
                       /\ inv.calls[1].arguments[key] =
                             NumericCoercionAsClaimed(DeclaredType(schema, key),
                                                      inv.kwargs[key])
              /\ \A key \in DOMAIN inv.kwargs :
                    /\ (key = "n" /\ inv.kwargs[key] = PyStr("42"))
                          => inv.calls[1].arguments[key] = PyInt(42)
                    /\ inv.kwargs[key] = PyStr("abc")
                          => inv.calls[1].arguments[key] = PyStr("abc")

\* An invocation with unparseable strings for an integer and a number has
\* forwarded them as given and has returned the remote result.
C13_Witness ==
    \E i \in Invocations :
       /\ invocations[i].pc = "returned"
       /\ invocations[i].name = "x"
       /\ invocations[i].kwargs = [n |-> PyStr("abc"), r |-> PyStr("abc")]
       /\ invocations[i].calls =
             <<[tool |-> "x", arguments |-> [n |-> PyStr("abc"), r |-> PyStr("abc")]]>>
       /\ invocations[i].result = RemoteResult("x")

(***************************************************************************)
(* C17.  An invocation makes exactly one remote call.  When that call      *)
(* raises, while it is awaited or while its items are collected, the       *)
(* invocation raises the same exception to its caller: it makes no second  *)
(* call and returns no result.                                             *)
(***************************************************************************)
C17_RemoteFailureReachesCaller ==
    \A i \in Invocations :
       LET inv == invocations[i]
       IN  /\ Len(inv.calls) <= 1
           /\ inv.pc \in {"await_result", "async_for", "returned"} => Len(inv.calls) = 1
           /\ inv.remote_error # "" =>
                 /\ inv.pc = "raised"
                 /\ inv.error = inv.remote_error
                 /\ inv.result = PyNone
                 /\ Len(inv.calls) = 1

\* Both invocations have made their one remote call, the two calls failed
\* with different exceptions, and each invocation raised its own call's.
C17_Witness ==
    /\ invocations["i1"].pc = "raised"
    /\ invocations["i1"].remote_error = "TimeoutError"
    /\ invocations["i1"].error = "TimeoutError"
    /\ Len(invocations["i1"].calls) = 1
    /\ invocations["i2"].pc = "raised"
    /\ invocations["i2"].error = "ToolError"
    /\ Len(invocations["i2"].calls) = 1

(***************************************************************************)
(* C18.  The agent argument of an invocation is not forwarded: the         *)
(* arguments of the remote call have no "agent" entry, and two             *)
(* invocations of the same action with the same argument mapping forward   *)
(* the same call whatever their agents are.                                *)
(***************************************************************************)
C18_AgentIsNeverForwarded ==
    /\ \A i \in Invocations :
          \A k \in 1..Len(invocations[i].calls) :
             /\ "agent" \notin DOMAIN invocations[i].calls[k].arguments
             /\ \A key \in DOMAIN invocations[i].calls[k].arguments :
                   invocations[i].calls[k].arguments[key] # invocations[i].agent
                      \/ invocations[i].agent = PyNone
    /\ \A i, j \in Invocations :
          (/\ Started(i) /\ Started(j)
           /\ invocations[i].name = invocations[j].name
           /\ invocations[i].kwargs = invocations[j].kwargs)
          => invocations[i].calls = invocations[j].calls

\* Two invocations of x with the same arguments, one with an agent and one
\* without, have forwarded the same call.
C18_Witness ==
    /\ invocations["i1"].name = "x"
    /\ invocations["i2"].name = "x"
    /\ invocations["i1"].agent = PyObject("agent_a")
    /\ invocations["i2"].agent = PyNone
    /\ invocations["i1"].kwargs = [n |-> PyStr("42"), r |-> PyStr("4.5")]
    /\ invocations["i2"].kwargs = invocations["i1"].kwargs
    /\ CalledRemote("i1")
    /\ invocations["i1"].calls = invocations["i2"].calls

(***************************************************************************)
(* C19.  A constructor call given both annotation_filters and toolsets     *)
(* raises: it stores no filter configuration, does not reach the parent    *)
(* constructor that takes the session, and leaves no instance whose        *)
(* filter or session could be used.                                        *)
(***************************************************************************)
C19_BothFormsFailAtConstruction ==
    (/\ construction.state # "new"
     /\ construction.toolsets # PyNone
     /\ ~construction.filters.none)
    => /\ construction.state = "raised"
       /\ ~construction.stored
       /\ ~construction.parent
       /\ annotation_filters = <<>> /\ custom_filter = "" /\ ~session
       /\ ~include_probe.done
       /\ ~initialized
       /\ \A c \in Calls : pc[c] = "idle"

C19_Witness ==
    /\ construction.state = "raised"
    /\ construction.toolsets = PyStr("a")
    /\ construction.filters = FiltersArg(FALSE, << <<"readOnlyHint", PyTrue>> >>)
    /\ ~construction.stored

\* The canonical specification of a legacy toolsets value.
LegacyTags(toolsets) == IF toolsets.t = "str" THEN <<EStr(toolsets.s)>> ELSE toolsets.l
CanonicalFilters(toolsets) ==
    IF toolsets = PyNone THEN <<>>
    ELSE << <<"toolsets", PyList(LegacyTags(toolsets))>> >>

(***************************************************************************)
(* C20.  An instance constructed with the legacy toolsets form (one tag    *)
(* or a list of tags) decides on every tool as an instance constructed     *)
(* with annotation_filters = {"toolsets": [tags]} does; constructed with   *)
(* neither form it has the empty specification and a tool is accepted iff  *)
(* the custom predicate does not reject it.                                *)
(***************************************************************************)
C20_LegacyToolsetsAreNormalized ==
    (construction.state = "constructed" /\ construction.filters.none) =>
       /\ construction.toolsets = PyNone => annotation_filters = <<>>
       /\ include_probe.done =>
             /\ include_probe.decision.result =
                   ShouldIncludeTool(include_probe.tool, custom_filter,
                                     CanonicalFilters(construction.toolsets)).result
             /\ construction.toolsets = PyNone =>
                   (include_probe.decision.result = "True"
                       <=> ~CustomRejects(include_probe.tool))

\* Constructed with toolsets="a": a tool whose toolsets annotation is the
\* list ["a"] is accepted, as under {"toolsets": ["a"]}.
C20_Witness ==
    /\ construction.state = "constructed"
    /\ construction.toolsets = PyStr("a")
    /\ construction.filters.none
    /\ include_probe.done
    /\ include_probe.tool.has_annotations
    /\ "toolsets" \in DOMAIN include_probe.tool.annotations
    /\ include_probe.tool.annotations["toolsets"] = PyList(<<EStr("a")>>)
    /\ include_probe.decision.result = "True"

\* What an instance with the other value of debug_filtering computes.
OtherFiltered ==
    FilterCatalogueWith(~debug_filtering, available_tools, 1, custom_filter,
                        annotation_filters, NothingFiltered)
OtherFinal == NameFilter(OtherFiltered.tools, 1, include_tools, exclude_tools, <<>>)
OtherCoerced(i) ==
    CoerceParametersWith(~debug_filtering, invocations[i].kwargs,
                         functions[invocations[i].name].entrypoint.schema)

(***************************************************************************)
(* C21.  For the same catalogue, configuration and call arguments, what    *)
(* an instance computes is what the instance with the other value of       *)
(* debug_filtering computes: the same decisions and accepted tools, the    *)
(* same end of the pass, the same final list and registry, and for every   *)
(* invocation the same forwarded arguments or the same exception.          *)
(***************************************************************************)
C21_DebugFilteringDoesNotChangeResults ==
    /\ OtherFiltered.tools = annotation_filtered_tools
    /\ OtherFiltered.decisions = decisions
    /\ (\A c \in Calls : pc[c] = "idle") =>
          (OtherFiltered.raised <=> last_result = "rule_evaluation")
    /\ last_result \in {"ready", "noop"} =>
          /\ OtherFinal = final_filtered_tools
          /\ functions = RegisterTools(OtherFinal, 1, build_failed,
                                       [functions |-> <<>>, registered |-> <<>>,
                                        failed |-> {}, aborted |-> FALSE]).functions
    /\ \A i \in Invocations :
          Started(i) =>
             /\ invocations[i].error = OtherCoerced(i).error
             /\ invocations[i].calls =
                   IF OtherCoerced(i).error # "" THEN <<>>
                   ELSE <<[tool |-> functions[invocations[i].name].entrypoint.original_fn,
                           arguments |-> ForwardedArguments(invocations[i].agent,
                                                            OtherCoerced(i).params)]>>

\* An instance with debug_filtering set has logged the exclusion of a tool
\* and the coercion of an argument, and has forwarded the coerced value.
C21_Witness ==
    /\ debug_filtering
    /\ {"excluding", "coercion", "initialized"} \subseteq logged
    /\ last_result = "ready"
    /\ Len(annotation_filtered_tools) < Len(available_tools)
    /\ invocations["i1"].name = "x"
    /\ invocations["i1"].kwargs = [n |-> PyStr("42"), r |-> PyStr("4.5")]
    /\ invocations["i1"].calls =
          <<[tool |-> "x", arguments |-> [n |-> PyInt(42), r |-> PyFloat(45)]]>>

\* The remote call an invocation of its own has to make: its tool's name,
\* its arguments coerced under its tool's schema.
OwnCall(i) ==
    LET inv == invocations[i]
        tool == CHOOSE t \in {registered[k] : k \in 1..Len(registered)} : t.name = inv.name
    IN  [tool |-> tool.name,
         arguments |-> CoerceParameters(inv.kwargs, tool.inputSchema).params]

(***************************************************************************)
(* C22.  Invocations of the actions of one Ready registry, interleaved at  *)
(* their suspend points: each has forwarded exactly one call, to its own   *)
(* tool's name with its own arguments coerced under its own tool's schema, *)
(* whatever the other invocation is doing, and the registry stays the one  *)
(* initialize() built.                                                     *)
(***************************************************************************)
C22_ConcurrentInvocationsDoNotInterfere ==
    /\ DOMAIN functions = {registered[k].name : k \in 1..Len(registered)}
    /\ \A k \in 1..Len(registered) : functions[registered[k].name] = Function(registered[k])
    /\ \A i \in Invocations :
          Started(i) =>
             /\ invocations[i].calls = <<OwnCall(i)>>
             /\ (invocations[i].name = "x" /\ "n" \in DOMAIN invocations[i].kwargs
                    /\ invocations[i].kwargs["n"] = PyStr("42"))
                   => invocations[i].calls[1].arguments["n"] = PyInt(42)
             /\ invocations[i].name = "z"
                   => invocations[i].calls[1].arguments = invocations[i].kwargs

\* Both invocations are suspended in their remote calls at the same time:
\* one of x awaiting a coroutine, one of z collecting a stream, each with
\* its own arguments forwarded.
C22_Witness ==
    /\ invocations["i1"].pc = "await_result"
    /\ invocations["i1"].calls =
          <<[tool |-> "x", arguments |-> [n |-> PyInt(42), r |-> PyFloat(45)]]>>
    /\ invocations["i2"].pc = "async_for"
    /\ Len(invocations["i2"].items) = 1
    /\ invocations["i2"].kwargs = [n |-> PyStr("42"), r |-> PyStr("4.5")]
    /\ invocations["i2"].calls =
          <<[tool |-> "z", arguments |-> [n |-> PyStr("42"), r |-> PyStr("4.5")]]>>

\* The items a generator yields are numbered in the order it yields them.
InOrderProduced(produced) == produced = [k \in 1..Len(produced) |-> Item(k)]

(***************************************************************************)
(* C24.  An invocation whose remote call is an async generator returns     *)
(* only when the generator is exhausted, and returns one list holding      *)
(* every item the generator yielded, in the order it yielded them; an      *)
(* invocation whose remote call is a coroutine returns the value the       *)
(* coroutine returned, as it is.                                           *)
(***************************************************************************)
C24_StreamIsDrainedInOrder ==
    \A i \in Invocations :
       LET inv == invocations[i]
       IN  /\ inv.pc = "async_for" => (inv.result = PyNone /\ ~inv.remote.exhausted)
           /\ (inv.pc = "returned" /\ inv.remote.kind = "async_generator") =>
                 /\ inv.remote.exhausted
                 /\ InOrderProduced(inv.remote.produced)
                 /\ inv.result = PyList(inv.remote.produced)
           /\ (inv.pc = "returned" /\ inv.remote.kind = "coroutine") =>
                 /\ inv.result = inv.remote.value
                 /\ inv.result = RemoteResult(inv.name)

\* A generator that yielded MaxItems items was drained into one list; the
\* other invocation returned a coroutine's value.
C24_Witness ==
    /\ invocations["i1"].pc = "returned"
    /\ invocations["i1"].remote.kind = "async_generator"
    /\ Len(invocations["i1"].remote.produced) = MaxItems
    /\ invocations["i1"].result = PyList([k \in 1..MaxItems |-> Item(k)])
    /\ invocations["i2"].pc = "returned"
    /\ invocations["i2"].remote.kind = "coroutine"
    /\ invocations["i2"].result = RemoteResult(invocations["i2"].name)

(***************************************************************************)
(* Claims about the agent configuration                                    *)
(***************************************************************************)
LastConfigCall == config_calls[1]

\* The file gives this agent a value for the field: the agents section has
\* a mapping under the agent's id, and the mapping has the field, not null.
FileProvides(cfg, agent_id, field) ==
    /\ ~cfg.agents_none
    /\ agent_id \in DOMAIN cfg.extra
    /\ cfg.extra[agent_id].kind = "dict"
    /\ field \in DOMAIN cfg.extra[agent_id].fields
    /\ cfg.extra[agent_id].fields[field] # PyNone

FileValue(cfg, agent_id, field) == cfg.extra[agent_id].fields[field]

\* C23: apply_agent_config with a config manager returns, for each of
\* model, debug_mode and enable_reasoning, the file's value when the file
\* provides one for that agent and the caller's value otherwise (for the
\* model, the file's default_model is also a value of the file); with no
\* config manager all three come back unchanged.
C23_FileValueElseCallersValue ==
    (config_calls # NoCalls /\ LastConfigCall.op = "apply_agent_config") =>
        LET call == LastConfigCall
            id == call.agent_id
            passed == call.arguments
            returned == call.result.value
            Expected(field, at) ==
                IF FileProvides(agent_config, id, field)
                THEN FileValue(agent_config, id, field)
                ELSE passed[at]
        IN  /\ call.result.error = ""
            /\ passed[1] = "None" => returned = <<passed[2], passed[3], passed[4]>>
            /\ passed[1] # "None" =>
                 /\ returned[2] = Expected("debug_mode", 3)
                 /\ returned[3] = Expected("enable_reasoning", 4)
                 /\ IF FileProvides(agent_config, id, "model")
                       /\ Truthy(FileValue(agent_config, id, "model"))
                    THEN returned[1] = FileValue(agent_config, id, "model")
                    ELSE returned[1] \in {passed[2], agent_config.default_model}

(***************************************************************************)
(* Claims about the order of the rules                                     *)
(***************************************************************************)
\* The same rules in every order a mapping can list them.
Reorderings(af) ==
    { [i \in 1..Len(af) |-> af[p[i]]] :
         p \in { q \in [1..Len(af) -> 1..Len(af)] :
                    \A i, j \in 1..Len(af) : i # j => q[i] # q[j] } }

\* C25: whether a descriptor is accepted or rejected does not depend on
\* the order in which the annotation rules are evaluated, rules whose
\* evaluation fails included: the rules in any other order give the
\* outcome the instance gave.
C25_OutcomeIndependentOfRuleOrder ==
    include_probe.done =>
        \A reordered \in Reorderings(annotation_filters) :
            ShouldIncludeTool(include_probe.tool, custom_filter, reordered).result
                = include_probe.decision.result

(***************************************************************************)
(* Claims about the registry                                               *)
(***************************************************************************)
\* The positions of the final filtered catalogue that hold the name.
Named(name) == {j \in 1..Len(final_filtered_tools) : final_filtered_tools[j].name = name}
Last(positions) == CHOOSE j \in positions : \A k \in positions : k <= j
Collides(name) == Cardinality(Named(name)) > 1
FinalNames == {final_filtered_tools[j].name : j \in 1..Len(final_filtered_tools)}

\* C26 as stated: after a successful initialize() a name that two
\* descriptors of the final filtered catalogue share is registered once,
\* with the action of the descriptor last in discovery order.
C26_LastDescriptorWins ==
    (last_result = "ready" /\ initialized) =>
        \A name \in FinalNames :
            Collides(name) =>
                /\ name \in DOMAIN functions
                /\ functions[name] = Function(final_filtered_tools[Last(Named(name))])

\* C26: after a successful initialize() a name that two descriptors of the
\* final filtered catalogue share is registered with the action of the last
\* descriptor of that name, in discovery order, whose action could be built.
C26_LastBuiltDescriptorWins ==
    (last_result = "ready" /\ initialized) =>
        \A name \in FinalNames :
            LET built == Named(name) \ build_failed
            IN  (Collides(name) /\ built # {}) =>
                   /\ name \in DOMAIN functions
                   /\ functions[name] = Function(final_filtered_tools[Last(built)])

C26_Witness ==
    /\ last_result = "ready" /\ initialized
    /\ \E i, j \in 1..Len(final_filtered_tools) :
          /\ i < j
          /\ final_filtered_tools[i].name = final_filtered_tools[j].name
          /\ Function(final_filtered_tools[i]) # Function(final_filtered_tools[j])
          /\ {i, j} \cap build_failed = {}
          /\ functions[final_filtered_tools[j].name] = Function(final_filtered_tools[j])

\* C27: every action of the registry is the action of a tool that passed
\* the custom predicate and every annotation rule, is not in the
\* exclude-list and is in the include-list when one is set, and every
\* action a pass adds or replaces is that of such a tool of the catalogue
\* the pass fetched; so against a fixed catalogue, whatever passes
\* succeeded or failed, a rejected tool is never registered.
C27_RegistryHoldsOnlyAcceptedTools ==
    [][ \A name \in DOMAIN functions' :
           /\ \E tool \in ToolPool :
                 /\ tool.name = name /\ Accepted(tool) /\ Kept(tool)
                 /\ functions'[name] = Function(tool)
           /\ (name \notin DOMAIN functions \/ functions'[name] # functions[name]) =>
                 \E j \in 1..Len(available_tools') :
                    /\ available_tools'[j].name = name
                    /\ Accepted(available_tools'[j]) /\ Kept(available_tools'[j])
                    /\ functions'[name] = Function(available_tools'[j]) ]_vars

C27_Witness ==
    /\ failed_once /\ last_result = "ready" /\ initialized
    /\ DOMAIN functions # {}
    /\ \E j \in 1..Len(available_tools) :
          /\ ~(Accepted(available_tools[j]) /\ Kept(available_tools[j]))
          /\ available_tools[j].name \notin DOMAIN functions

(***************************************************************************)
(* Claims about interleaved initialize() calls                             *)
(***************************************************************************)
\* Both calls have fetched a catalogue and returned, and neither failed.
BothReturned ==
    /\ \A c \in RacingCalls : pc[c] = "idle" /\ fetched[c].fetched
    /\ ~failed_once

\* The registry entry under the name is the action of a tool of the
\* snapshot that call c fetched.
FromSnapshot(registry, name, snapshot) ==
    \E j \in 1..Len(snapshot.tools) :
       /\ snapshot.tools[j].name = name
       /\ Accepted(snapshot.tools[j])
       /\ registry[name] = Function(snapshot.tools[j])

\* C28 as stated: once two interleaved initialize() calls have returned,
\* the registry holds tools of one single catalogue snapshot, never a
\* mixture of the two.
C28_RegistryIsOfOneSnapshot ==
    BothReturned =>
        \E c \in RacingCalls :
           \A name \in DOMAIN functions : FromSnapshot(functions, name, fetched[c])

\* C28: interleaved initialize() calls accumulate: no step removes a name
\* from the registry, and while no call has failed every entry is the
\* action of an accepted tool of the snapshot one of the calls fetched, so
\* after both have returned the registry is what the two passes registered,
\* the later one replacing entries of the same name.
C28_RegistryAccumulatesSnapshots ==
    [][ /\ DOMAIN functions \subseteq DOMAIN functions'
        /\ ~failed_once' =>
              \A name \in DOMAIN functions' :
                 \E c \in RacingCalls : FromSnapshot(functions', name, fetched'[c]) ]_vars

C28_Witness ==
    /\ BothReturned
    /\ fetched["c1"].tools # fetched["c2"].tools
    /\ \E name \in DOMAIN functions :
          /\ FromSnapshot(functions, name, fetched["c1"])
          /\ ~FromSnapshot(functions, name, fetched["c2"])
    /\ \E name \in DOMAIN functions :
          /\ FromSnapshot(functions, name, fetched["c2"])
          /\ ~FromSnapshot(functions, name, fetched["c1"])

(***************************************************************************)
(* Claims about repeated coercion                                          *)
(***************************************************************************)
CoercedAgain == coerce_probe.done /\ "again" \in DOMAIN coerce_probe

\* C29: coercion is idempotent: coercing the mapping that a coercion
\* returned, under the same schema, returns that mapping again.
C29_CoercionIsIdempotent ==
    CoercedAgain =>
        /\ coerce_probe.again.error = ""
        /\ coerce_probe.again.params = coerce_probe.result.params

C29_Witness ==
    /\ CoercedAgain
    /\ coerce_probe.params = [p |-> PyStr("ab"), q |-> PyStr("42")]
    /\ DeclaredType(coerce_probe.schema, "p") = "array"
    /\ coerce_probe.result.params # coerce_probe.params
    /\ coerce_probe.again.params = coerce_probe.result.params

\* C30: for every valid agent id and every loaded configuration,
\* get_agent_config(id).model is the model string get_agent_model(id)
\* returns (the agent's own model, else default_model, else the built-in
\* fallback); for an id outside AgentID.all_ids() both raise ValueError.
C30_ConfigModelIsAgentModel ==
    (config_calls # NoCalls /\ LastConfigCall.op = "get_agent_config") =>
        LET id == LastConfigCall.agent_id
            config == LastConfigCall.result
            model == GetAgentModel(agent_config, id)
        IN  IF id \in AllIds
            THEN /\ config.error = "" /\ model.error = ""
                 /\ config.value.model = model.value
            ELSE config.error = "ValueError" /\ model.error = "ValueError"

================================================================================
